---- MODULE Spec2Model ----
(***************************************************************************)
(* The visibility-driven asynchronous chunk meshing pipeline of            *)
(* azalea-graphics: the dirty set, the coordinator thread that rebuilds    *)
(* the job list from a visibility snapshot, the worker threads that pop    *)
(* and claim jobs, and the render thread that consumes mesh results.       *)
(*                                                                         *)
(* f32 depth values are modelled as the naturals 0..MaxDepth (0.0 is 0);   *)
(* Option::None of an index or of a depth is the value None.               *)
(***************************************************************************)
EXTENDS Integers, Sequences, FiniteSets, TLC

\* ------------------------------------------------------------------ bounds
\* largest grid radius of a snapshot in the rebuild specification
MaxRadius == 1
\* largest grid height of a snapshot in the rebuild specification
MaxHeight == 2
\* largest depth value stored in a snapshot cell
MaxDepth == 2
\* largest number of positions in the dirty set of the rebuild specification
MaxDirty == 2

None == -1

\* ------------------------------------------------------------ integer helpers
\* Rust's i32 division truncates toward zero
TruncDiv(a, b) ==
    IF a >= 0 THEN a \div b ELSE -((-a) \div b)

Pos(x, y, z) == [x |-> x, y |-> y, z |-> z]

\* -------------------------------------------------------- VisibilitySnapshot
Side(vis) == vis.radius * 2 + 1

\* VisibilitySnapshot::index
Index(vis, dx, dy, dz) ==
    IF dx < -vis.radius \/ dx > vis.radius THEN None
    ELSE IF dz < -vis.radius \/ dz > vis.radius THEN None
    ELSE IF dy < 0 \/ dy >= vis.height THEN None
    ELSE (dy * Side(vis) * Side(vis)) + ((dz + vis.radius) * Side(vis)) + (dx + vis.radius)

\* VisibilitySnapshot::get_depth; cell i of the Vec is data[i + 1]
GetDepth(vis, dx, dy, dz) ==
    LET i == Index(vis, dx, dy, dz)
    IN  IF i = None THEN None ELSE vis.data[i + 1]

\* VisibilitySnapshot::is_visible
IsVisible(vis, dx, dy, dz) ==
    LET i == Index(vis, dx, dy, dz)
    IN  IF i = None THEN FALSE ELSE vis.data[i + 1] # 0

\* VisibilitySnapshot::section_is_visible
SectionIsVisible(vis, spos) ==
    IsVisible(vis, spos.x - vis.cx, spos.y - TruncDiv(vis.min_y, 16), spos.z - vis.cz)

\* VisibilitySnapshot::section_depth
SectionDepth(vis, spos) ==
    GetDepth(vis, spos.x - vis.cx, spos.y - TruncDiv(vis.min_y, 16), spos.z - vis.cz)

\* prio_for: section_depth(spos).unwrap_or(0.0)
PrioFor(vis, spos) ==
    LET d == SectionDepth(vis, spos)
    IN  IF d = None THEN 0 ELSE d

\* ------------------------------------------------------------- SharedQueue
\* the position clear_and_reprioritize decodes from cell index i
CellPos(vis, i) ==
    LET side == Side(vis)
        y    == i \div (side * side)
        rem  == i % (side * side)
        z    == rem \div side
        x    == rem % side
    IN  Pos(vis.cx + (x - vis.radius), vis.min_y + y, vis.cz + (z - vis.radius))

\* the loop of clear_and_reprioritize over the cells i .. len-1, in push order
RECURSIVE CollectJobs(_, _, _)
CollectJobs(vis, dirtySet, i) ==
    IF i >= Len(vis.data) THEN << >>
    ELSE LET spos == CellPos(vis, i)
             rest == CollectJobs(vis, dirtySet, i + 1)
         IN  IF vis.data[i + 1] = 0 THEN rest
             ELSE IF spos \in dirtySet
                  THEN <<[prio |-> PrioFor(vis, spos), spos |-> spos]>> \o rest
                  ELSE rest

\* the comparator of the sort: b.prio.partial_cmp(&a.prio), a before b
\* is in order when a.prio >= b.prio
InOrder(a, b) == a.prio >= b.prio

IsSorted(js) ==
    \A k \in 1..(Len(js) - 1) : InOrder(js[k], js[k + 1])

\* sort_unstable_by: any arrangement of the pushed jobs the comparator
\* accepts (the order of equal priorities is unspecified)
SortedArrangements(js) ==
    LET n     == Len(js)
        perms == {f \in [1..n -> 1..n] : \A a, b \in 1..n : a # b => f[a] # f[b]}
    IN  {s \in {[k \in 1..n |-> js[f[k]]] : f \in perms} : IsSorted(s)}

\* ------------------------------------------------------------------- state
VARIABLES
    dirty,              \* Mesher.dirty: HashSet<ChunkSectionPos>
    visibility_rx,      \* the unbounded channel of VisibilitySnapshot
    jobs,               \* SharedQueue.jobs: the installed Vec<Job>
    next_job_index,     \* SharedQueue.next_job_index
    parked_threads,     \* SharedQueue.parked_threads (its elements; drain ignores order)
    park_token,         \* the park/unpark token of each worker thread
    current_visibility, \* WorkerContext.current_visibility
    coord,              \* the coordinator thread: position and locals
    wk,                 \* each worker thread: position and locals
    spawned,            \* the worker threads that were spawned
    should_stop,        \* WorkerContext.should_stop
    worker_count,       \* Mesher.worker_count
    result_rx,          \* the unbounded channel of MeshResult
    blocks,             \* MeshStore.blocks
    water,              \* MeshStore.water
    world,              \* the content of each chunk section of the live world
    claimed_since,      \* history: claims of a position since its last insertion
    last_built,         \* history: the content last copied into a LocalSection
    total_meshes,       \* WorkerContext.total_meshes
    chunks,             \* world.chunks: min_y, height and the loaded chunk columns
    render,             \* the render thread: its position in draw_frame
    vis_buffers,        \* VisibilityBuffers: configuration and buffer contents
    sync,               \* FrameSync: current_frame and the in_flight fences
    gpu,                \* the work the GPU still has to do for each frame slot
    fresh,              \* history: what was claimed since the current frame began
    submit,             \* a thread inside Mesher::submit_chunk: its loop position
    cull,               \* one invocation of the cull_chunks shader: input and output
    hiz,                \* the Hi-Z pyramid: the image of each mip level
    local_section,      \* the LocalSection build_local_section last produced
    locks,              \* the lock model: each thread's position and the locks it holds
    plugin,             \* the queued server block updates and the channel to the renderer
    grid                \* the visible buffer of one cull dispatch: the cell each entry holds

queueVars == <<jobs, next_job_index, parked_threads, park_token>>
poolVars  == <<wk, spawned, should_stop, worker_count>>
storeVars == <<blocks, water>>
histVars  == <<claimed_since, last_built>>
vars == <<dirty, visibility_rx, jobs, next_job_index, parked_threads, park_token,
          current_visibility, coord, wk, spawned, should_stop, worker_count,
          result_rx, blocks, water, world, claimed_since, last_built,
          total_meshes, chunks, render, vis_buffers, sync, gpu, fresh, submit, cull, hiz,
          local_section, locks, plugin, grid>>

\* what the scheduler, the workers and the mesh store never write
passVars == <<submit, cull, hiz, local_section, locks, plugin, grid>>
sideVars == <<chunks, render, vis_buffers, sync, gpu, passVars>>

\* ---------------------------------------------------------- snapshot values
\* a data Vec of n cells that is 0 except for v1 at cell c1 and v2 at cell c2
TwoCellData(n, c1, v1, c2, v2) ==
    [k \in 1..n |-> IF k = c2 + 1 THEN v2 ELSE IF k = c1 + 1 THEN v1 ELSE 0]

\* VisibilityBuffers::calc: the entry count of a (radius, height) grid
EntryCount(radius, height) == (radius * 2 + 1) * (radius * 2 + 1) * height

\* VisibilityBuffers::snapshot: data has entry_count cells
Snapshot(radius, height, data, cx, cz, min_y) ==
    [radius |-> radius, height |-> height, data |-> data,
     cx |-> cx, cz |-> cz, min_y |-> min_y]

\* the origins min_y of the rebuild specification
RebuildMinYs == {-1, 0, 1}

RebuildSnapshots ==
    UNION { UNION { { Snapshot(r, h, TwoCellData(EntryCount(r, h), c1, v1, c2, v2), 0, 0, my) :
                        c1 \in 0..(EntryCount(r, h) - 1), c2 \in 0..(EntryCount(r, h) - 1),
                        v1 \in 0..MaxDepth, v2 \in 0..MaxDepth, my \in RebuildMinYs }
                    : h \in 1..MaxHeight }
            : r \in 0..MaxRadius }

\* the positions submitted in the rebuild specification
RebuildPositions ==
    {Pos(c[1], y, c[2]) : c \in {<<0, 0>>, <<1, 0>>, <<0, -1>>}, y \in (-1)..MaxHeight}

RebuildDirtySets ==
    {d \in SUBSET RebuildPositions : Cardinality(d) <= MaxDirty}

\* ------------------------------------------------------------- construction
NoJob == [prio |-> 0, spos |-> Pos(0, 0, 0)]
NoVis == Snapshot(0, 0, << >>, 0, 0, 0)
CoordIdle == [pc |-> "recv", new_vis |-> NoVis, dirty_set |-> {}]

\* --------------------------------------------------------------- coordinator
\* visibility_rx.recv() and ctx.dirty.lock().clone()
CoordRecv ==
    /\ coord.pc = "recv"
    /\ Len(visibility_rx) > 0
    /\ coord' = [pc |-> "reprioritize", new_vis |-> Head(visibility_rx), dirty_set |-> dirty]
    /\ visibility_rx' = Tail(visibility_rx)
    /\ UNCHANGED <<dirty, queueVars, current_visibility, poolVars, result_rx, storeVars, world, histVars>>
    /\ UNCHANGED <<total_meshes, fresh, sideVars>>

\* clear_and_reprioritize up to drop(guard): build, sort, install, reset the cursor
ClearAndReprioritize ==
    /\ coord.pc = "reprioritize"
    /\ \E sorted \in SortedArrangements(CollectJobs(coord.new_vis, coord.dirty_set, 0)) :
           jobs' = sorted
    /\ next_job_index' = 0
    /\ coord' = [coord EXCEPT !.pc = "unpark"]
    /\ UNCHANGED <<dirty, visibility_rx, parked_threads, park_token, current_visibility, poolVars, result_rx, storeVars, world, histVars>>
    /\ UNCHANGED <<total_meshes, fresh, sideVars>>

\* clear_and_reprioritize, parked.drain(..): unpark every parked thread
UnparkAll ==
    /\ coord.pc = "unpark"
    /\ park_token' = [w \in DOMAIN park_token |->
                         IF w \in parked_threads THEN TRUE ELSE park_token[w]]
    /\ parked_threads' = {}
    /\ coord' = [coord EXCEPT !.pc = "set_vis"]
    /\ UNCHANGED <<dirty, visibility_rx, jobs, next_job_index, current_visibility, poolVars, result_rx, storeVars, world, histVars>>
    /\ UNCHANGED <<total_meshes, fresh, sideVars>>

\* *ctx.current_visibility.lock() = Some(new_vis); back to recv
SetCurrentVisibility ==
    /\ coord.pc = "set_vis"
    /\ current_visibility' = coord.new_vis
    /\ coord' = [pc |-> "recv", new_vis |-> coord.new_vis, dirty_set |-> {}]
    /\ UNCHANGED <<dirty, visibility_rx, queueVars, poolVars, result_rx, storeVars, world, histVars>>
    /\ UNCHANGED <<total_meshes, fresh, sideVars>>

\* ------------------------------------------------------------------ workers
\* the thread slots a worker thread can be spawned into
MaxThreads == 2
\* the capacity the model gives the visibility channel
MaxVisQueue == 1
\* the capacity the model gives the result channel
MaxResults == 1
\* the largest CPU count num_cpus::get() reports
MaxCpus == 4

Threads == 1..MaxThreads

\* the section the scheduling specifications submit, and the one-cell
\* snapshots that mark it invisible (0) or visible at depth 1
OnePosition == {Pos(0, 0, 0)}

OneCellSnapshots == {Snapshot(0, 1, <<d>>, 0, 0, 0) : d \in {0, 1}}

VisibleSnapshots == {Snapshot(0, 1, <<1>>, 0, 0, 0)}

\* the sections the mesh store is followed for
StorePositions == {Pos(0, 0, 0), Pos(0, 1, 0)}

\* what a section holds: nothing but air, solid blocks, or water
Contents == {"air", "stone", "dirt", "water"}

\* a worker thread at the top of its loop; locals that are dead hold their default
WorkerStart == [pc |-> "pop", idx |-> 0, job |-> NoJob, local |-> ""]

\* pop, lines 103-107: the should_stop check and next_job_index.fetch_add(1)
FetchAdd(w) ==
    /\ w \in spawned
    /\ wk[w].pc = "pop"
    /\ IF should_stop
       THEN /\ wk' = [wk EXCEPT ![w].pc = "exited"]
            /\ UNCHANGED next_job_index
       ELSE /\ wk' = [wk EXCEPT ![w].pc = "read", ![w].idx = next_job_index]
            /\ next_job_index' = next_job_index + 1
    /\ UNCHANGED <<dirty, visibility_rx, jobs, parked_threads, park_token, current_visibility,
                   coord, spawned, should_stop, worker_count, result_rx, storeVars, world,
                   histVars>>
    /\ UNCHANGED <<total_meshes, fresh, sideVars>>

\* pop, lines 109-115: read the installed list at the drawn index
ReadJobs(w) ==
    /\ w \in spawned
    /\ wk[w].pc = "read"
    /\ IF wk[w].idx < Len(jobs)
       THEN wk' = [wk EXCEPT ![w].pc = "claim", ![w].idx = 0, ![w].job = jobs[wk[w].idx + 1]]
       ELSE wk' = [wk EXCEPT ![w].pc = "recheck_load"]
    /\ UNCHANGED <<dirty, visibility_rx, queueVars, current_visibility, coord, spawned,
                   should_stop, worker_count, result_rx, storeVars, world, histVars>>
    /\ UNCHANGED <<total_meshes, fresh, sideVars>>

\* pop, line 117: load the cursor again
RecheckLoad(w) ==
    /\ w \in spawned
    /\ wk[w].pc = "recheck_load"
    /\ wk' = [wk EXCEPT ![w].pc = "recheck_read", ![w].idx = next_job_index]
    /\ UNCHANGED <<dirty, visibility_rx, queueVars, current_visibility, coord, spawned,
                   should_stop, worker_count, result_rx, storeVars, world, histVars>>
    /\ UNCHANGED <<total_meshes, fresh, sideVars>>

\* pop, lines 118-127: compare with the installed list, then the second should_stop check
RecheckRead(w) ==
    /\ w \in spawned
    /\ wk[w].pc = "recheck_read"
    /\ wk' = [wk EXCEPT ![w].pc = IF wk[w].idx < Len(jobs) THEN "pop"
                                  ELSE IF should_stop THEN "exited" ELSE "push",
                         ![w].idx = 0]
    /\ UNCHANGED <<dirty, visibility_rx, queueVars, current_visibility, coord, spawned,
                   should_stop, worker_count, result_rx, storeVars, world, histVars>>
    /\ UNCHANGED <<total_meshes, fresh, sideVars>>

\* pop, line 129: parked_threads.lock().push(current())
PushParked(w) ==
    /\ w \in spawned
    /\ wk[w].pc = "push"
    /\ parked_threads' = parked_threads \cup {w}
    /\ wk' = [wk EXCEPT ![w].pc = "park"]
    /\ UNCHANGED <<dirty, visibility_rx, jobs, next_job_index, park_token, current_visibility,
                   coord, spawned, should_stop, worker_count, result_rx, storeVars, world,
                   histVars>>
    /\ UNCHANGED <<total_meshes, fresh, sideVars>>

\* pop, line 130: std::thread::park() returns once the thread's token is set
Park(w) ==
    /\ w \in spawned
    /\ wk[w].pc = "park"
    /\ park_token[w]
    /\ park_token' = [park_token EXCEPT ![w] = FALSE]
    /\ wk' = [wk EXCEPT ![w].pc = "pop"]
    /\ UNCHANGED <<dirty, visibility_rx, jobs, next_job_index, parked_threads,
                   current_visibility, coord, spawned, should_stop, worker_count, result_rx,
                   storeVars, world, histVars>>
    /\ UNCHANGED <<total_meshes, fresh, sideVars>>

\* the claim without the test of what remove returned
ClaimUnchecked(w) ==
    /\ w \in spawned
    /\ wk[w].pc = "claim"
    /\ dirty' = dirty \ {wk[w].job.spos}
    /\ claimed_since' = [claimed_since EXCEPT ![wk[w].job.spos] = @ + 1]
    /\ wk' = [wk EXCEPT ![w].pc = "build"]
    /\ fresh' = [fresh EXCEPT !.workers = @ \cup {w}]
    /\ UNCHANGED <<visibility_rx, queueVars, current_visibility, coord, spawned, should_stop,
                   worker_count, result_rx, storeVars, world, last_built>>
    /\ UNCHANGED <<total_meshes, sideVars>>

\* spawn_worker, lines 289-294: d.remove(&job.spos) under the dirty lock
Claim(w) ==
    /\ w \in spawned
    /\ wk[w].pc = "claim"
    /\ IF wk[w].job.spos \in dirty
       THEN /\ dirty' = dirty \ {wk[w].job.spos}
            /\ claimed_since' = [claimed_since EXCEPT ![wk[w].job.spos] = @ + 1]
            /\ wk' = [wk EXCEPT ![w].pc = "build"]
            /\ fresh' = [fresh EXCEPT !.workers = @ \cup {w}]
       ELSE /\ wk' = [wk EXCEPT ![w] = WorkerStart]
            /\ UNCHANGED <<dirty, claimed_since, fresh>>
    /\ UNCHANGED <<visibility_rx, queueVars, current_visibility, coord, spawned, should_stop,
                   worker_count, result_rx, storeVars, world, last_built>>
    /\ UNCHANGED <<total_meshes, sideVars>>

\* ChunkPos::new(spos.x, spos.z): the chunk column of a section
ChunkOf(spos) == <<spos.x, spos.z>>

\* build_local_section returns Some: world.chunks.get(center) finds the chunk
CenterLoaded(spos) == ChunkOf(spos) \in chunks.loaded

\* a build that treats every chunk column as unloaded: the claimed job is dropped
BuildDropped(w) ==
    /\ w \in spawned
    /\ wk[w].pc = "build"
    /\ wk' = [wk EXCEPT ![w] = WorkerStart]
    /\ fresh' = [fresh EXCEPT !.workers = @ \ {w}]
    /\ UNCHANGED <<dirty, visibility_rx, queueVars, current_visibility, coord, spawned,
                   should_stop, worker_count, result_rx, storeVars, world, histVars>>
    /\ UNCHANGED <<total_meshes, sideVars>>

\* a None that puts the position back into the dirty set for a later retry
BuildOrRetry(w) ==
    /\ w \in spawned
    /\ wk[w].pc = "build"
    /\ IF CenterLoaded(wk[w].job.spos)
       THEN /\ wk' = [wk EXCEPT ![w].pc = "send", ![w].local = world[wk[w].job.spos]]
            /\ last_built' = [last_built EXCEPT ![wk[w].job.spos] = world[wk[w].job.spos]]
            /\ UNCHANGED <<fresh, dirty>>
       ELSE /\ wk' = [wk EXCEPT ![w] = WorkerStart]
            /\ fresh' = [fresh EXCEPT !.workers = @ \ {w}]
            /\ dirty' = dirty \cup {wk[w].job.spos}
            /\ UNCHANGED last_built
    /\ UNCHANGED <<visibility_rx, queueVars, current_visibility, coord, spawned,
                   should_stop, worker_count, result_rx, storeVars, world, claimed_since>>
    /\ UNCHANGED <<total_meshes, sideVars>>

\* spawn_worker, line 296: build_local_section copies the section out of the
\* world, or returns None and the loop goes on to the next pop
BuildLocalSection(w) ==
    /\ w \in spawned
    /\ wk[w].pc = "build"
    /\ IF CenterLoaded(wk[w].job.spos)
       THEN /\ wk' = [wk EXCEPT ![w].pc = "send", ![w].local = world[wk[w].job.spos]]
            /\ last_built' = [last_built EXCEPT ![wk[w].job.spos] = world[wk[w].job.spos]]
            /\ UNCHANGED fresh
       ELSE /\ wk' = [wk EXCEPT ![w] = WorkerStart]
            /\ fresh' = [fresh EXCEPT !.workers = @ \ {w}]
            /\ UNCHANGED last_built
    /\ UNCHANGED <<dirty, visibility_rx, queueVars, current_visibility, coord, spawned,
                   should_stop, worker_count, result_rx, storeVars, world, claimed_since>>
    /\ UNCHANGED <<total_meshes, sideVars>>

\* mesh_section and MeshBuilder::finish: the two vertex lists of a section,
\* each given by the content it was triangulated from ("" is an empty list)
MeshSection(spos, local) ==
    [blocks |-> [section_pos |-> spos,
                 vertices |-> IF local \in {"stone", "dirt"} THEN local ELSE ""],
     water  |-> [section_pos |-> spos, vertices |-> IF local = "water" THEN local ELSE ""]]

\* the values the model gives the u64 counter total_meshes: 0 up to
\* CounterModulus - 1, the last one standing for that many or more
CounterModulus == 2

\* total_meshes.fetch_add(1), counted up to the last value
FetchAddOne(n) == IF n + 1 < CounterModulus THEN n + 1 ELSE n

\* spawn_worker, lines 298-307: mesh the local section, count it and send the
\* result (total_mesh_time_ns, which adds a measured time, is counted with it)
SendResult(w) ==
    /\ w \in spawned
    /\ wk[w].pc = "send"
    /\ Len(result_rx) < MaxResults
    /\ result_rx' = Append(result_rx, MeshSection(wk[w].job.spos, wk[w].local))
    /\ total_meshes' = FetchAddOne(total_meshes)
    /\ wk' = [wk EXCEPT ![w] = WorkerStart]
    /\ fresh' = [fresh EXCEPT !.workers = @ \ {w},
                              !.results = Append(@, w \in fresh.workers)]
    /\ UNCHANGED <<dirty, visibility_rx, queueVars, current_visibility, coord, spawned,
                   should_stop, worker_count, storeVars, world, histVars>>
    /\ UNCHANGED sideVars

\* -------------------------------------------------------------- environment
\* an insert that takes out a position it finds present
InsertToggle(set, p) == IF p \in set THEN set \ {p} ELSE set \cup {p}

\* HashSet::insert of the dirty set
Insert(set, p) == set \cup {p}

\* Mesher::submit_section
SubmitSection(p) ==
    /\ dirty' = Insert(dirty, p)
    /\ claimed_since' = [claimed_since EXCEPT ![p] = IF p \in dirty THEN @ ELSE 0]
    /\ UNCHANGED <<visibility_rx, queueVars, current_visibility, coord, poolVars, result_rx,
                   storeVars, world, last_built>>
    /\ UNCHANGED <<total_meshes, fresh, sideVars>>

\* Mesher::update_visibility
UpdateVisibility(v) ==
    /\ Len(visibility_rx) < MaxVisQueue
    /\ visibility_rx' = Append(visibility_rx, v)
    /\ UNCHANGED <<dirty, queueVars, current_visibility, coord, poolVars, result_rx,
                   storeVars, world, histVars>>
    /\ UNCHANGED <<total_meshes, fresh, sideVars>>

\* the world's owner writes a block: the section's content changes
BlockUpdate(p, c) ==
    /\ world[p] # c
    /\ world' = [world EXCEPT ![p] = c]
    /\ UNCHANGED <<dirty, visibility_rx, queueVars, current_visibility, coord, poolVars,
                   result_rx, storeVars, histVars>>
    /\ UNCHANGED <<total_meshes, fresh, sideVars>>

\* the world's owner unloads a chunk column
ChunkUnload(c) ==
    /\ c \in chunks.loaded
    /\ chunks' = [chunks EXCEPT !.loaded = @ \ {c}]
    /\ UNCHANGED <<dirty, visibility_rx, queueVars, current_visibility, coord, poolVars,
                   result_rx, storeVars, world, histVars, total_meshes, render, fresh,
                   vis_buffers, sync, gpu, passVars>>

\* the world's owner loads a chunk column
ChunkLoad(c) ==
    /\ c \notin chunks.loaded
    /\ chunks' = [chunks EXCEPT !.loaded = @ \cup {c}]
    /\ UNCHANGED <<dirty, visibility_rx, queueVars, current_visibility, coord, poolVars,
                   result_rx, storeVars, world, histVars, total_meshes, render, fresh,
                   vis_buffers, sync, gpu, passVars>>

\* the thread slots the next k spawned workers run in
RECURSIVE FreeSlots(_, _)
FreeSlots(used, k) ==
    IF k = 0 THEN {}
    ELSE LET t == CHOOSE t \in Threads \ used : \A u \in Threads \ used : t <= u
         IN  {t} \cup FreeSlots(used \cup {t}, k - 1)

\* Mesher::set_worker_threads
SetWorkerThreads(n) ==
    /\ n # worker_count
    /\ IF n > worker_count
       THEN /\ Cardinality(spawned) + (n - worker_count) <= MaxThreads
            /\ spawned' = spawned \cup FreeSlots(spawned, n - worker_count)
       ELSE UNCHANGED spawned
    /\ worker_count' = n
    /\ UNCHANGED <<dirty, visibility_rx, queueVars, current_visibility, coord, wk, should_stop,
                   result_rx, storeVars, world, histVars>>
    /\ UNCHANGED <<total_meshes, fresh, sideVars>>

\* MeshStore::insert_block / insert_water after the is_empty test of the vertices
InsertMesh(map, key, mesh) ==
    IF mesh # "" THEN [map EXCEPT ![key] = mesh] ELSE map

\* MeshStore::process_mesher_results: one turn of the while-let loop over poll()
ProcessMesherResult ==
    /\ Len(result_rx) > 0
    /\ LET r == Head(result_rx)
       IN  /\ blocks' = InsertMesh(blocks, r.blocks.section_pos, r.blocks.vertices)
           /\ water' = InsertMesh(water, r.water.section_pos, r.water.vertices)
    /\ result_rx' = Tail(result_rx)
    /\ fresh' = [fresh EXCEPT
                     !.results = Tail(@),
                     !.meshes = IF Head(fresh.results)
                                   /\ (Head(result_rx).blocks.vertices # ""
                                       \/ Head(result_rx).water.vertices # "")
                                THEN @ \cup {Head(result_rx).blocks.section_pos}
                                ELSE @]
    /\ UNCHANGED <<dirty, visibility_rx, queueVars, current_visibility, coord, poolVars,
                   world, histVars>>
    /\ UNCHANGED <<total_meshes, sideVars>>

\* no thread is inside submit_chunk
SubmitIdle == [pc |-> "idle", pos |-> <<0, 0>>, y |-> 0, max |-> 0, added |-> {}]

\* the range end with the bound included
ColumnMaxInclusive(min, height) == min + TruncDiv(height, 16) + 1

\* submit_chunk, line 264: max = min + world.chunks.height as i32 / 16
ColumnMax(min, height) == min + TruncDiv(height, 16)

\* submit_chunk, lines 262-264: take the world's read lock, compute min and max
SubmitChunkBegin(pos) ==
    /\ submit.pc \in {"idle", "done"}
    /\ submit' = [pc |-> "loop", pos |-> pos,
                  y |-> TruncDiv(chunks.min_y, 16),
                  max |-> ColumnMax(TruncDiv(chunks.min_y, 16), chunks.height),
                  added |-> {}]
    /\ UNCHANGED <<dirty, claimed_since>>
    /\ UNCHANGED <<visibility_rx, queueVars, current_visibility, coord, poolVars, result_rx,
                   storeVars, world, last_built, total_meshes, fresh, chunks, render,
                   vis_buffers, sync, gpu, cull, hiz,
                   local_section, locks, plugin, grid>>

\* submit_chunk, lines 265-268: one turn of `for y in min..max`, which calls
\* submit_section(ChunkSectionPos::new(pos.x, y, pos.z)), or the end of the loop
SubmitChunkStep ==
    /\ submit.pc = "loop"
    /\ IF submit.y < submit.max
       THEN LET spos == Pos(submit.pos[1], submit.y, submit.pos[2])
            IN  /\ dirty' = Insert(dirty, spos)
                /\ claimed_since' = [q \in DOMAIN claimed_since |->
                                         IF q = spos /\ spos \notin dirty
                                         THEN 0 ELSE claimed_since[q]]
                /\ submit' = [submit EXCEPT !.y = @ + 1, !.added = @ \cup {spos}]
       ELSE /\ submit' = [submit EXCEPT !.pc = "done"]
            /\ UNCHANGED <<dirty, claimed_since>>
    /\ UNCHANGED <<visibility_rx, queueVars, current_visibility, coord, poolVars, result_rx,
                   storeVars, world, last_built, total_meshes, fresh, chunks, render,
                   vis_buffers, sync, gpu, cull, hiz,
                   local_section, locks, plugin, grid>>

\* ------------------------------------------------------------- cull_chunks
\* f32 values of the shader are exact fractions <<n, d>> with d > 0
RatLess(a, b) == a[1] * b[2] < b[1] * a[2]

\* f32::min and f32::max
RatMin(a, b) == IF RatLess(b, a) THEN b ELSE a

RatMax(a, b) == IF RatLess(a, b) THEN b ELSE a

\* clamp(0.0, 1.0) of one component
Clamp01(a) == IF a[1] < 0 THEN <<0, 1>> ELSE IF a[1] > a[2] THEN <<1, 1>> ELSE a

\* cull_chunks, lines 68-76: the inside test of one plane for one clip corner
Inside(plane, clip) ==
    CASE plane = 0 -> clip.x >= -clip.w
      [] plane = 1 -> clip.x <= clip.w
      [] plane = 2 -> clip.y >= -clip.w
      [] plane = 3 -> clip.y <= clip.w
      [] plane = 4 -> clip.z <= clip.w
      [] plane = 5 -> clip.z >= 0

\* cull_chunks, lines 64-86: some plane has all 8 corners outside
FrustumRejects(corners) ==
    \E plane \in 0..5 : \A i \in 1..8 : ~Inside(plane, corners[i])

\* cull_chunks, lines 88-91: the accumulators before the loop over the corners
ProjectStart ==
    [min_x |-> <<1, 1>>, min_y |-> <<1, 1>>, max_x |-> <<0, 1>>, max_y |-> <<0, 1>>,
     near_depth |-> <<1, 1>>, any_valid |-> FALSE]

\* cull_chunks, lines 93-106: the loop over corners i..8; a corner with
\* w <= 0 is skipped, another gives uv = ndc.xy * 0.5 + 0.5 and d = ndc.z
RECURSIVE Project(_, _, _)
Project(corners, i, acc) ==
    IF i > 8 THEN acc
    ELSE LET clip == corners[i]
         IN  IF clip.w <= 0 THEN Project(corners, i + 1, acc)
             ELSE LET u == <<clip.x + clip.w, 2 * clip.w>>
                      v == <<clip.y + clip.w, 2 * clip.w>>
                      d == <<clip.z, clip.w>>
                      next == [min_x |-> RatMin(acc.min_x, u), min_y |-> RatMin(acc.min_y, v),
                               max_x |-> RatMax(acc.max_x, u), max_y |-> RatMax(acc.max_y, v),
                               near_depth |-> RatMin(acc.near_depth, d),
                               any_valid |-> TRUE]
                  IN  Project(corners, i + 1, next)

\* the extent test that wants both components to be zero
DegenerateBoth(lo, hi) == ~RatLess(lo[1], hi[1]) /\ ~RatLess(lo[2], hi[2])

\* cull_chunks, lines 115-116: extent.x <= 0.0 || extent.y <= 0.0
Degenerate(lo, hi) == ~RatLess(lo[1], hi[1]) \/ ~RatLess(lo[2], hi[2])

\* cull_chunks, lines 64-133: the value written to visible[index] for a cell
\* with these clip corners when the four Hi-Z samples are `samples`
CullValue(corners, samples) ==
    IF FrustumRejects(corners) THEN <<0, 1>>
    ELSE LET acc == Project(corners, 1, ProjectStart)
             min_xy == <<Clamp01(acc.min_x), Clamp01(acc.min_y)>>
             max_xy == <<Clamp01(acc.max_x), Clamp01(acc.max_y)>>
             max_z == RatMin(RatMin(samples[1], samples[2]), RatMin(samples[3], samples[4]))
         IN  IF ~acc.any_valid THEN <<0, 1>>
             ELSE IF Degenerate(min_xy, max_xy) THEN <<0, 1>>
             ELSE IF RatLess(max_z, acc.near_depth) THEN acc.near_depth
             ELSE <<0, 1>>

\* the edge of a cell in view units (CHUNK_SIZE scaled down)
BoxSize == 2
\* the largest view-space coordinate of a cell's corner nearest the origin
MaxView == 3

\* lines 37-62: the clip corners of the cell whose box starts at (x0, y0, z0)
\* in view space, under a 90 degree perspective with the near plane at 1 and
\* the far plane at BoxSize + 1, all four coordinates scaled by BoxSize;
\* corner i takes bmax.x in bit 0, bmax.y in bit 1, bmax.z in bit 2
ClipCorners(x0, y0, z0) ==
    [i \in 1..8 |->
        LET x == x0 + (IF (i - 1) % 2 = 1 THEN BoxSize ELSE 0)
            y == y0 + (IF ((i - 1) \div 2) % 2 = 1 THEN BoxSize ELSE 0)
            z == z0 + (IF (i - 1) \div 4 = 1 THEN BoxSize ELSE 0)
        IN  [x |-> BoxSize * x, y |-> BoxSize * y,
             z |-> (BoxSize + 1) * (z - 1), w |-> BoxSize * z]]

\* the depths a Hi-Z sample returns: near zero, middle, the cleared 1.0
HiZValues == {<<1, 8>>, <<1, 2>>, <<1, 1>>}

\* compute.rs dispatch: push constants and the Hi-Z image are bound
CullBind(x0, y0, z0, samples) ==
    /\ cull.pc = "idle"
    /\ cull' = [pc |-> "bound", corners |-> ClipCorners(x0, y0, z0), samples |-> samples,
                out |-> "stale"]
    /\ UNCHANGED <<dirty, visibility_rx, queueVars, current_visibility, coord, poolVars,
                   result_rx, storeVars, world, histVars, total_meshes, chunks, render,
                   vis_buffers, sync, gpu, fresh, submit, hiz,
                   local_section, locks, plugin, grid>>

\* one invocation of cull_chunks for a cell inside the grid
CullChunks ==
    /\ cull.pc = "bound"
    /\ cull' = [cull EXCEPT !.pc = "done", !.out = CullValue(cull.corners, cull.samples)]
    /\ UNCHANGED <<dirty, visibility_rx, queueVars, current_visibility, coord, poolVars,
                   result_rx, storeVars, world, histVars, total_meshes, chunks, render,
                   vis_buffers, sync, gpu, fresh, submit, hiz,
                   local_section, locks, plugin, grid>>

\* ------------------------------------------------------------- Hi-Z pyramid
\* the largest width and height of the depth image
MaxDim == 4

\* an image of w by h texels; px maps <<x, y>> to the texel's depth
Image(w, h, px) == [w |-> w, h |-> h, px |-> px]

\* no Hi-Z pyramid has been built
NoPyramid == [pc |-> "idle", depth |-> Image(0, 0, << >>), levels |-> << >>, w |-> 0, h |-> 0]

\* u32::BITS - n.leading_zeros()
RECURSIVE BitLength(_)
BitLength(n) == IF n = 0 THEN 0 ELSE 1 + BitLength(n \div 2)

\* DepthPyramid::new: mip_levels of a width by height image
MipLevels(width, height) ==
    LET m == IF width >= height THEN width ELSE height
    IN  BitLength(IF m >= 1 THEN m ELSE 1)

\* (n / 2).max(1): the size of the next mip level
MipSize(n) == IF n \div 2 >= 1 THEN n \div 2 ELSE 1

\* the copy shader: every texel of level 0 is fetched from the depth image
Copy(src) ==
    Image(src.w, src.h, [id \in (0..(src.w - 1)) \X (0..(src.h - 1)) |-> src.px[id]])

\* the reduce shader over one level: dst texel o is the min of the src texels
\* p00, p10, p01, p11 at 2o + {0,1}, each clamped to src_size - 1; the
\* dispatch of (w + 7) / 8 groups of 8 by 8 threads covers every dst texel
Reduce(src) ==
    LET cx(x) == IF x < src.w - 1 THEN x ELSE src.w - 1
        cy(y) == IF y < src.h - 1 THEN y ELSE src.h - 1
        min2(a, b) == IF b < a THEN b ELSE a
    IN  Image(MipSize(src.w), MipSize(src.h),
              [o \in (0..(MipSize(src.w) - 1)) \X (0..(MipSize(src.h) - 1)) |->
                  min2(min2(src.px[<<cx(2 * o[1]), cy(2 * o[2])>>],
                            src.px[<<cx(2 * o[1] + 1), cy(2 * o[2])>>]),
                       min2(src.px[<<cx(2 * o[1]), cy(2 * o[2] + 1)>>],
                            src.px[<<cx(2 * o[1] + 1), cy(2 * o[2] + 1)>>]))])

\* the world pass has written the depth attachment of the frame
DepthWritten(depth) ==
    /\ hiz.pc = "idle"
    /\ hiz' = [hiz EXCEPT !.pc = "copy", !.depth = depth]
    /\ UNCHANGED <<dirty, visibility_rx, queueVars, current_visibility, coord, poolVars,
                   result_rx, storeVars, world, histVars, total_meshes, chunks, render,
                   vis_buffers, sync, gpu, fresh, submit, cull,
                   local_section, locks, plugin, grid>>

\* dispatch_all_levels, lines 436-476: the copy dispatch fills level 0, then
\* w and h take the size of level 1
HizCopy ==
    /\ hiz.pc = "copy"
    /\ hiz' = [hiz EXCEPT !.pc = "reduce", !.levels = <<Copy(hiz.depth)>>,
                          !.w = MipSize(hiz.depth.w), !.h = MipSize(hiz.depth.h)]
    /\ UNCHANGED <<dirty, visibility_rx, queueVars, current_visibility, coord, poolVars,
                   result_rx, storeVars, world, histVars, total_meshes, chunks, render,
                   vis_buffers, sync, gpu, fresh, submit, cull,
                   local_section, locks, plugin, grid>>

\* dispatch_all_levels, lines 478-519: one turn of `for level in 1..mip_levels`
\* reduces level - 1 into level, or the loop ends
HizReduce ==
    /\ hiz.pc = "reduce"
    /\ IF Len(hiz.levels) < MipLevels(hiz.depth.w, hiz.depth.h)
       THEN hiz' = [hiz EXCEPT !.levels = Append(@, Reduce(hiz.levels[Len(hiz.levels)])),
                               !.w = MipSize(@), !.h = MipSize(@)]
       ELSE hiz' = [hiz EXCEPT !.pc = "done"]
    /\ UNCHANGED <<dirty, visibility_rx, queueVars, current_visibility, coord, poolVars,
                   result_rx, storeVars, world, histVars, total_meshes, chunks, render,
                   vis_buffers, sync, gpu, fresh, submit, cull,
                   local_section, locks, plugin, grid>>

\* ------------------------------------------------------------ local sections
\* no LocalSection was built yet
NoLocal == [pc |-> "none", spos |-> Pos(0, 0, 0), blocks |-> << >>]

\* section.get_block_state of the section at index s of the chunk column c: a
\* block is named by the world voxel the chunk storage keeps at that place
SectionBlock(c, s, sx, sy, sz) ==
    <<16 * c[1] + sx, chunks.min_y + 16 * s + sy, 16 * c[2] + sz>>

\* a LocalChunk whose EAST and WEST entries are exchanged
LocalChunkSwapped(spos) ==
    LET get(x, z) == IF <<x, z>> \in chunks.loaded THEN {<<x, z>>} ELSE {}
    IN  [center |-> ChunkOf(spos),
         neighbors |-> << get(spos.x, spos.z - 1), get(spos.x, spos.z + 1),
                          get(spos.x - 1, spos.z), get(spos.x + 1, spos.z),
                          get(spos.x + 1, spos.z - 1), get(spos.x - 1, spos.z - 1),
                          get(spos.x + 1, spos.z + 1), get(spos.x - 1, spos.z + 1) >>,
         min_y |-> TruncDiv(chunks.min_y, 16)]

\* build_local_section, lines 346-373: the centre and the eight neighbours in
\* the order North, South, East, West, NE, NW, SE, SW; an Option is the empty
\* set or a one-element set
LocalChunk(spos) ==
    LET get(x, z) == IF <<x, z>> \in chunks.loaded THEN {<<x, z>>} ELSE {}
    IN  [center |-> ChunkOf(spos),
         neighbors |-> << get(spos.x, spos.z - 1), get(spos.x, spos.z + 1),
                          get(spos.x + 1, spos.z), get(spos.x - 1, spos.z),
                          get(spos.x + 1, spos.z - 1), get(spos.x - 1, spos.z - 1),
                          get(spos.x + 1, spos.z + 1), get(spos.x - 1, spos.z + 1) >>,
         min_y |-> TruncDiv(chunks.min_y, 16)]

\* BorrowedChunks::get_block_local: div_euclid and rem_euclid by 16, the chunk
\* by its offset (NORTH = 0 is neighbors[1] here, ..., SW = 7 is neighbors[8]),
\* then sections.get(base_y + cy_off), a negative index being out of range
GetBlockLocal(lc, base_y, lx, ly, lz) ==
    LET cx_off == lx \div 16
        cy_off == ly \div 16
        cz_off == lz \div 16
        chunk_ref == CASE cx_off = 0 /\ cz_off = 0 -> {lc.center}
                       [] cx_off = 0 /\ cz_off = -1 -> lc.neighbors[1]
                       [] cx_off = 0 /\ cz_off = 1 -> lc.neighbors[2]
                       [] cx_off = -1 /\ cz_off = 0 -> lc.neighbors[4]
                       [] cx_off = 1 /\ cz_off = 0 -> lc.neighbors[3]
                       [] cx_off = -1 /\ cz_off = -1 -> lc.neighbors[6]
                       [] cx_off = 1 /\ cz_off = -1 -> lc.neighbors[5]
                       [] cx_off = -1 /\ cz_off = 1 -> lc.neighbors[8]
                       [] cx_off = 1 /\ cz_off = 1 -> lc.neighbors[7]
                       [] OTHER -> {}
        section_index == base_y + cy_off
    IN  IF section_index >= 0 /\ section_index < chunks.height \div 16
        THEN {SectionBlock(c, section_index, lx % 16, ly % 16, lz % 16) : c \in chunk_ref}
        ELSE {}

\* build_local_section of mesher/mod.rs around BorrowedChunks::build_local_section:
\* None without the centre chunk, else the 18x18x18 blocks
CopyLocalSection(spos) ==
    /\ local_section' = IF CenterLoaded(spos)
                THEN [pc |-> "built", spos |-> spos,
                      blocks |-> [ix \in 0..17 |-> [iy \in 0..17 |-> [iz \in 0..17 |->
                          GetBlockLocal(LocalChunk(spos), spos.y - LocalChunk(spos).min_y,
                                        ix - 1, iy - 1, iz - 1)]]]]
                ELSE [NoLocal EXCEPT !.spos = spos]
    /\ UNCHANGED <<dirty, visibility_rx, queueVars, current_visibility, coord, poolVars,
                   result_rx, storeVars, world, histVars, total_meshes, fresh, chunks,
                   render, vis_buffers, sync, gpu, submit, cull, hiz,
                   locks, plugin, grid>>

\* --------------------------------------------------------------------- locks
\* The lock operations of each thread in program order. A thread's code maps
\* each position to its possible steps <<operation, lock, next position>>:
\* "lock" takes a mutex, "read" and "write" an RwLock, "release" drops the
\* guard, "step" touches no lock.

\* a worker that keeps the chunk read guards until mesh_section has returned
WorkerCodeLateDrop ==
    [pop         |-> {<<"step", "", "pop_read">>},
     pop_read    |-> {<<"read", "jobs", "pop_got">>},
     pop_got     |-> {<<"release", "jobs", "claim">>, <<"release", "jobs", "recheck">>},
     recheck     |-> {<<"read", "jobs", "recheck_got">>},
     recheck_got |-> {<<"release", "jobs", "pop">>, <<"release", "jobs", "push">>},
     push        |-> {<<"lock", "parked", "push_got">>},
     push_got    |-> {<<"release", "parked", "park">>},
     park        |-> {<<"step", "", "pop">>},
     claim       |-> {<<"lock", "dirty", "claim_got">>},
     claim_got   |-> {<<"release", "dirty", "pop">>, <<"release", "dirty", "build">>},
     build       |-> {<<"read", "world", "build_world">>},
     build_world |-> {<<"release", "world", "pop">>, <<"release", "world", "borrow">>},
     borrow      |-> {<<"read", "chunk", "copy">>},
     copy        |-> {<<"step", "", "mesh">>},
     mesh        |-> {<<"release", "chunk", "send">>},
     send        |-> {<<"step", "", "pop">>}]

\* spawn_worker, lines 283-309, with pop (101-132) and build_local_section
\* (340-378): fetch_add, jobs.read() and its drop, the second jobs.read(),
\* parked_threads.lock().push and park; the dirty guard of the claim;
\* world.read() around the chunks.get calls, borrow_chunks' chunk read
\* guards around the copy; then mesh_section and the send
WorkerCode ==
    [pop         |-> {<<"step", "", "pop_read">>},
     pop_read    |-> {<<"read", "jobs", "pop_got">>},
     pop_got     |-> {<<"release", "jobs", "claim">>, <<"release", "jobs", "recheck">>},
     recheck     |-> {<<"read", "jobs", "recheck_got">>},
     recheck_got |-> {<<"release", "jobs", "pop">>, <<"release", "jobs", "push">>},
     push        |-> {<<"lock", "parked", "push_got">>},
     push_got    |-> {<<"release", "parked", "park">>},
     park        |-> {<<"step", "", "pop">>},
     claim       |-> {<<"lock", "dirty", "claim_got">>},
     claim_got   |-> {<<"release", "dirty", "pop">>, <<"release", "dirty", "build">>},
     build       |-> {<<"read", "world", "build_world">>},
     build_world |-> {<<"release", "world", "pop">>, <<"release", "world", "borrow">>},
     borrow      |-> {<<"read", "chunk", "copy">>},
     copy        |-> {<<"release", "chunk", "mesh">>},
     mesh        |-> {<<"step", "", "send">>},
     send        |-> {<<"step", "", "pop">>}]

\* a coordinator that still holds the jobs write guard when it drains the
\* parked threads
CoordCodeNested ==
    [recv        |-> {<<"step", "", "clone">>},
     clone       |-> {<<"lock", "dirty", "clone_got">>},
     clone_got   |-> {<<"release", "dirty", "install">>},
     install     |-> {<<"write", "jobs", "install_got">>},
     install_got |-> {<<"lock", "parked", "drain_got">>},
     drain       |-> {<<"release", "jobs", "set">>},
     drain_got   |-> {<<"release", "parked", "drain">>},
     set         |-> {<<"lock", "vis", "set_got">>},
     set_got     |-> {<<"release", "vis", "recv">>}]

\* the coordinator thread, Mesher::new lines 206-221 with
\* clear_and_reprioritize lines 160-171: recv, dirty.lock().clone(),
\* jobs.write() and drop(guard), parked_threads.lock() and the drain,
\* current_visibility.lock()
CoordCode ==
    [recv        |-> {<<"step", "", "clone">>},
     clone       |-> {<<"lock", "dirty", "clone_got">>},
     clone_got   |-> {<<"release", "dirty", "install">>},
     install     |-> {<<"write", "jobs", "install_got">>},
     install_got |-> {<<"release", "jobs", "drain">>},
     drain       |-> {<<"lock", "parked", "drain_got">>},
     drain_got   |-> {<<"release", "parked", "set">>},
     set         |-> {<<"lock", "vis", "set_got">>},
     set_got     |-> {<<"release", "vis", "recv">>}]

\* the submitting thread: submit_section (dirty.lock().insert) and
\* submit_chunk (world.read() held around the loop of submit_section)
SubmitCode ==
    [idle        |-> {<<"lock", "dirty", "section_got">>, <<"read", "world", "chunk_loop">>},
     section_got |-> {<<"release", "dirty", "idle">>},
     chunk_loop  |-> {<<"lock", "dirty", "chunk_got">>, <<"release", "world", "idle">>},
     chunk_got   |-> {<<"release", "dirty", "chunk_loop">>}]

\* two workers, the coordinator and the submitting thread before their first
\* lock operation
LocksFree ==
    [pc   |-> [t \in {"worker1", "worker2", "coordinator", "submitter"} |->
                  CASE t = "coordinator" -> "recv" [] t = "submitter" -> "idle"
                    [] OTHER -> "pop"],
     held |-> [t \in {"worker1", "worker2", "coordinator", "submitter"} |-> {}]]

\* one lock operation of thread t: a mutex or a write lock is taken when
\* nobody holds the lock, a read lock when nobody holds it for writing
LockStep(t) ==
    LET code == CASE t = "coordinator" -> CoordCode [] t = "submitter" -> SubmitCode
                  [] OTHER -> WorkerCode
    IN  \E op \in code[locks.pc[t]] :
          /\ op[1] \in {"lock", "write"} =>
                 \A u \in DOMAIN locks.held : \A g \in locks.held[u] : g[1] # op[2]
          /\ op[1] = "read" =>
                 \A u \in DOMAIN locks.held : <<op[2], "write">> \notin locks.held[u]
          /\ locks' = [pc   |-> [locks.pc EXCEPT ![t] = op[3]],
                       held |-> [locks.held EXCEPT ![t] =
                                    CASE op[1] = "step" -> @
                                      [] op[1] = "release" -> {g \in @ : g[1] # op[2]}
                                      [] OTHER -> @ \cup {<<op[2], op[1]>>}]]
          /\ UNCHANGED <<dirty, visibility_rx, queueVars, current_visibility, coord,
                         poolVars, result_rx, storeVars, world, histVars, total_meshes,
                         fresh, chunks, render, vis_buffers, sync, gpu, submit, cull, hiz,
                         local_section, plugin, grid>>

\* -------------------------------------------------------------------- plugin
\* handle_block_updates, lines 54-64: a server block update (pos, block_state)
\* is queued, and send_section puts its section into the channel to the
\* render thread; one update at a time, into an empty channel
HandleBlockUpdates(p, c) ==
    /\ plugin.queued = {}
    /\ Len(plugin.cmd_rx) = 0
    /\ world[p] # c
    /\ plugin' = [queued |-> {<<p, c>>}, cmd_rx |-> <<p>>]
    /\ UNCHANGED <<dirty, visibility_rx, queueVars, current_visibility, coord, poolVars,
                   result_rx, storeVars, world, histVars, total_meshes, fresh, chunks,
                   render, vis_buffers, sync, gpu, submit, cull, hiz, local_section, locks, grid>>

\* handle_block_update_event, which the schedule runs after
\* handle_block_updates (line 47): the queued update is written into the world
HandleBlockUpdateEvent ==
    /\ \E u \in plugin.queued : world' = [world EXCEPT ![u[1]] = u[2]]
    /\ plugin' = [plugin EXCEPT !.queued = {}]
    /\ UNCHANGED <<dirty, visibility_rx, queueVars, current_visibility, coord, poolVars,
                   result_rx, storeVars, histVars, total_meshes, fresh, chunks,
                   render, vis_buffers, sync, gpu, submit, cull, hiz, local_section, locks, grid>>

\* draw_frame, lines 361-363: cmd_rx.try_recv() and update_world, which
\* submits the section to the mesher
UpdateWorld ==
    /\ Len(plugin.cmd_rx) > 0
    /\ plugin' = [plugin EXCEPT !.cmd_rx = Tail(@)]
    /\ dirty' = Insert(dirty, Head(plugin.cmd_rx))
    /\ claimed_since' = [claimed_since EXCEPT
                             ![Head(plugin.cmd_rx)] = IF Head(plugin.cmd_rx) \in dirty
                                                      THEN @ ELSE 0]
    /\ UNCHANGED <<visibility_rx, queueVars, current_visibility, coord, poolVars,
                   result_rx, storeVars, world, last_built, total_meshes, fresh, chunks,
                   render, vis_buffers, sync, gpu, submit, cull, hiz, local_section, locks, grid>>

\* ------------------------------------------------------ the flat cell index
\* VisibilityBuffers::new, recreate and resize: entry_count comes from calc
\* and the new output buffer has entry_count entries, none written yet; an
\* entry is the set of cells written into it; snap holds the last snapshot
GridResize(radius, height) ==
    /\ ~(grid.radius = radius /\ grid.height = height)
    /\ grid' = [radius |-> radius, height |-> height,
                entry_count |-> EntryCount(radius, height),
                visible |-> [i \in 1..EntryCount(radius, height) |-> {}],
                snap |-> grid.snap]
    /\ UNCHANGED <<dirty, visibility_rx, queueVars, current_visibility, coord, poolVars,
                   result_rx, storeVars, world, histVars, total_meshes, fresh, chunks,
                   render, vis_buffers, sync, gpu, submit, cull, hiz, local_section,
                   locks, plugin>>

\* cull_chunks with the x and z terms of the index exchanged
CullIndexTransposed(radius, height, gid) ==
    LET side == radius * 2 + 1
        dx   == gid[1] - radius
        dy   == gid[2]
        dz   == gid[3] - radius
    IN  IF \/ gid[2] < 0 \/ gid[2] >= height
           \/ gid[1] < 0 \/ gid[1] >= side
           \/ gid[3] < 0 \/ gid[3] >= side
        THEN None
        ELSE (dy * side * side) + ((dx + radius) * side) + (dz + radius)

\* cull_chunks, lines 25-35: the bounds test of the invocation gid and the
\* index of its cell; None when the invocation returns without writing
CullIndex(radius, height, gid) ==
    LET side == radius * 2 + 1
        dx   == gid[1] - radius
        dy   == gid[2]
        dz   == gid[3] - radius
    IN  IF \/ gid[2] < 0 \/ gid[2] >= height
           \/ gid[1] < 0 \/ gid[1] >= side
           \/ gid[3] < 0 \/ gid[3] >= side
        THEN None
        ELSE (dy * side * side) + ((dz + radius) * side) + (dx + radius)

\* VisibilityCompute::dispatch: cmd_dispatch(side, h, side) runs one invocation
\* of cull_chunks for every gid below (side, h, side), and the barrier that
\* follows makes all their writes visible together; the invocation of gid
\* writes the value of its cell (gid.x - radius, gid.y, gid.z - radius) into
\* visible[index]
CullDispatch ==
    /\ \E i \in 1..Len(grid.visible) : grid.visible[i] = {}
    /\ grid' = [grid EXCEPT !.visible =
                    [i \in 1..Len(grid.visible) |->
                        {Pos(gid[1] - grid.radius, gid[2], gid[3] - grid.radius) :
                            gid \in {g \in (0..(2 * grid.radius)) \X (0..(grid.height - 1))
                                               \X (0..(2 * grid.radius)) :
                                        CullIndex(grid.radius, grid.height, g) = i - 1}}]]
    /\ UNCHANGED <<dirty, visibility_rx, queueVars, current_visibility, coord, poolVars,
                   result_rx, storeVars, world, histVars, total_meshes, fresh, chunks,
                   render, vis_buffers, sync, gpu, submit, cull, hiz, local_section,
                   locks, plugin>>

\* VisibilityBuffers::snapshot: the entry_count entries of the buffer with the
\* radius and the height of the buffers and the origin the caller passes
GridSnapshot(cx, cz, min_y) ==
    /\ grid' = [grid EXCEPT !.snap = {Snapshot(grid.radius, grid.height,
                                               SubSeq(grid.visible, 1, grid.entry_count),
                                               cx, cz, min_y)}]
    /\ UNCHANGED <<dirty, visibility_rx, queueVars, current_visibility, coord, poolVars,
                   result_rx, storeVars, world, histVars, total_meshes, fresh, chunks,
                   render, vis_buffers, sync, gpu, submit, cull, hiz, local_section,
                   locks, plugin>>

\* chunk_coords of the debug shader: the cell of instance i
ChunkCoords(instance, radius) ==
    LET side       == radius * 2 + 1
        layer_size == side * side
        y          == TruncDiv(instance, layer_size)
        rem        == instance - layer_size * TruncDiv(instance, layer_size)
        z          == TruncDiv(rem, side)
        x          == rem - side * TruncDiv(rem, side)
    IN  Pos(x - radius, y, z - radius)

\* ------------------------------------------------------------ specifications
\* the chunk columns of the sections the model follows
StoreChunks == {ChunkOf(p) : p \in StorePositions}

\* a world of two sections per column (min_y 0, height 32), all columns loaded
LoadedWorld == [min_y |-> 0, height |-> 32, loaded |-> StoreChunks]

\* frame_sync.rs: the number of frame slots
MAX_FRAMES_IN_FLIGHT == 2

Slots == 0..(MAX_FRAMES_IN_FLIGHT - 1)

\* the render thread between two calls of draw_frame: how many frames it has
\* begun, the slot of its last frame, the content of the readback buffer it
\* last copied, what it last drew
RenderIdle == [pc |-> "idle", count |-> 0, frame |-> 0, read |-> "none", drawn |-> {}]

\* VisibilityBuffers::new and the buffers resize allocates: memory that no
\* pass has written, in every slot; gen counts the allocations
NewBuffers(radius, height, gen) ==
    [radius |-> radius, height |-> height, gen |-> gen,
     outputs |-> [f \in Slots |-> "uninit"],
     readbacks |-> [f \in Slots |-> "uninit"]]

\* FrameSync::new: current_frame 0, every fence created SIGNALED
NewSync == [current_frame |-> 0, in_flight |-> [f \in Slots |-> TRUE]]

\* a slot with no submitted work left; drawn is the sections whose mesh
\* buffers the slot's command buffer reads
GpuIdle == [stage |-> "idle", gen |-> 0, drawn |-> {}]

\* nothing was claimed since the frame began
NothingFresh == [workers |-> {}, results |-> << >>, meshes |-> {}]

\* ------------------------------------------------------------ render thread
\* the most resizes of the visibility buffers the model follows
MaxResizes == 1
\* the most frames the model follows the render thread for
MaxFrames == 3

\* the (radius, height) configurations of the visibility grid
GridConfigs == {<<0, 1>>, <<0, 2>>}

\* the cell values a buffer of entry_count cells can hold
GridData(radius, height) == [1..EntryCount(radius, height) -> {0, 1}]

\* what the mesher, the mesh store and the world hold
mesherVars == <<dirty, visibility_rx, queueVars, current_visibility, coord, poolVars,
                result_rx, storeVars, world, histVars, total_meshes, chunks, passVars>>

\* draw_frame is entered: whatever is claimed from now on is claimed in this frame
FrameBegin ==
    /\ render.pc = "idle"
    /\ render.count < MaxFrames
    /\ render' = [render EXCEPT !.pc = "cmds", !.count = @ + 1, !.read = "none",
                                !.drawn = {}]
    /\ fresh' = [workers |-> {},
                 results |-> [k \in 1..Len(fresh.results) |-> FALSE],
                 meshes |-> {}]
    /\ UNCHANGED <<mesherVars, vis_buffers, sync, gpu>>

\* draw_frame, lines 361-363: a queued world update submits a section
FrameSubmitSection(p) ==
    /\ render.pc = "cmds"
    /\ SubmitSection(p)

\* VisibilityBuffers::resize, reached from a queued world update: new buffers
\* in every slot, the old ones kept for the passes still in flight
FrameResize(new_radius, new_height) ==
    /\ render.pc = "cmds"
    /\ ~(vis_buffers.radius = new_radius /\ vis_buffers.height = new_height)
    /\ vis_buffers.gen < MaxResizes
    /\ vis_buffers' = NewBuffers(new_radius, new_height, vis_buffers.gen + 1)
    /\ UNCHANGED <<mesherVars, render, sync, gpu, fresh>>

\* FrameSync::next_frame
FrameNext ==
    /\ render.pc = "cmds"
    /\ render' = [render EXCEPT !.pc = "wait", !.frame = sync.current_frame]
    /\ sync' = [sync EXCEPT !.current_frame = (@ + 1) % MAX_FRAMES_IN_FLIGHT]
    /\ UNCHANGED <<mesherVars, vis_buffers, gpu, fresh>>

\* FrameSync::wait_for_fence: wait_for_fences, then reset_fences
FrameWaitFence ==
    /\ render.pc = "wait"
    /\ sync.in_flight[render.frame]
    /\ sync' = [sync EXCEPT !.in_flight[render.frame] = FALSE]
    /\ render' = [render EXCEPT !.pc = "vis"]
    /\ UNCHANGED <<mesherVars, vis_buffers, gpu, fresh>>

\* what copy_nonoverlapping reads out of a readback buffer: the cells a
\* finished pass wrote, or whatever the memory holds
ReadbackData(content) == GridData(vis_buffers.radius, vis_buffers.height)

\* world.update_visibility: VisibilityBuffers::snapshot of the frame's slot,
\* handed to Mesher::update_visibility
FrameUpdateVisibility ==
    /\ render.pc = "vis"
    /\ Len(visibility_rx) < MaxVisQueue
    /\ \E data \in ReadbackData(vis_buffers.readbacks[render.frame]) :
           visibility_rx' = Append(visibility_rx,
               Snapshot(vis_buffers.radius, vis_buffers.height, data, 0, 0, 0))
    /\ render' = [render EXCEPT !.pc = "acquire",
                                !.read = vis_buffers.readbacks[render.frame]]
    /\ UNCHANGED <<dirty, queueVars, current_visibility, coord, poolVars, result_rx,
                   storeVars, world, histVars, total_meshes, chunks, vis_buffers, sync,
                   gpu, fresh, passVars>>

\* acquire_next_image: an image, or Err(true) and draw_frame returns
FrameAcquire(ok) ==
    /\ render.pc = "acquire"
    /\ render' = [render EXCEPT !.pc = IF ok THEN "poll" ELSE "idle"]
    /\ UNCHANGED <<mesherVars, vis_buffers, sync, gpu, fresh>>

\* render: process_mesher_results, one turn of its loop with a result polled
FramePoll ==
    /\ render.pc = "poll"
    /\ ProcessMesherResult

\* process_mesher_results: poll() returns None and the loop ends
FramePollEnd ==
    /\ render.pc = "poll"
    /\ Len(result_rx) = 0
    /\ render' = [render EXCEPT !.pc = "draw"]
    /\ UNCHANGED <<mesherVars, vis_buffers, sync, gpu, fresh>>

\* the sections that have a mesh in the store
Stored == {p \in StorePositions : blocks[p] # "" \/ water[p] # ""}

\* draw_world: every stored mesh the camera has in view is drawn
FrameDraw(view) ==
    /\ render.pc = "draw"
    /\ render' = [render EXCEPT !.pc = "submit", !.drawn = Stored \cap view]
    /\ UNCHANGED <<mesherVars, vis_buffers, sync, gpu, fresh>>

\* queue_submit with the slot's fence: the pass recorded against the buffers
\* of this allocation is handed to the GPU; draw_frame returns
FrameSubmit ==
    /\ render.pc = "submit"
    /\ gpu' = [gpu EXCEPT ![render.frame] = [stage |-> "cull", gen |-> vis_buffers.gen,
                                              drawn |-> render.drawn]]
    /\ render' = [render EXCEPT !.pc = "idle"]
    /\ UNCHANGED <<mesherVars, vis_buffers, sync, fresh>>

\* a buffer of slot f after a pass wrote it: the pass writes the buffers it
\* was recorded against, which a resize since then has replaced
Written(buffers, f, content) ==
    IF gpu[f].gen = vis_buffers.gen THEN [buffers EXCEPT ![f] = content] ELSE buffers

\* cmd_dispatch of cull_chunks: every cell of outputs[f] is written
GpuCull(f) ==
    /\ gpu[f].stage = "cull"
    /\ gpu' = [gpu EXCEPT ![f].stage = "copy"]
    /\ vis_buffers' = [vis_buffers EXCEPT !.outputs = Written(@, f, "complete")]
    /\ UNCHANGED <<mesherVars, render, sync, fresh>>

\* cmd_copy_buffer outputs[f] -> readbacks[f], under way
GpuCopyBegin(f) ==
    /\ gpu[f].stage = "copy"
    /\ gpu' = [gpu EXCEPT ![f].stage = "copying"]
    /\ vis_buffers' = [vis_buffers EXCEPT !.readbacks = Written(@, f, "partial")]
    /\ UNCHANGED <<mesherVars, render, sync, fresh>>

\* cmd_copy_buffer outputs[f] -> readbacks[f], finished
GpuCopyEnd(f) ==
    /\ gpu[f].stage = "copying"
    /\ gpu' = [gpu EXCEPT ![f].stage = "signal"]
    /\ vis_buffers' = [vis_buffers EXCEPT
                           !.readbacks = Written(@, f, vis_buffers.outputs[f])]
    /\ UNCHANGED <<mesherVars, render, sync, fresh>>

\* the submission completes: its fence is signaled
GpuSignal(f) ==
    /\ gpu[f].stage = "signal"
    /\ gpu' = [gpu EXCEPT ![f] = GpuIdle]
    /\ sync' = [sync EXCEPT !.in_flight[f] = TRUE]
    /\ UNCHANGED <<mesherVars, render, vis_buffers, fresh>>

\* Mesher::new: num_cpus::get().max(1) as u32 / 2
NumThreads(cpus) == (IF cpus >= 1 THEN cpus ELSE 1) \div 2

InitCommon ==
    /\ jobs = << >>
    /\ next_job_index = 0
    /\ parked_threads = {}
    /\ park_token = [w \in Threads |-> FALSE]
    /\ current_visibility = NoVis
    /\ coord = CoordIdle
    /\ wk = [w \in Threads |-> WorkerStart]
    /\ should_stop = FALSE
    /\ blocks = [p \in StorePositions |-> ""]
    /\ water = [p \in StorePositions |-> ""]
    /\ world = [p \in StorePositions |-> "stone"]
    /\ claimed_since = [p \in StorePositions |-> 0]
    /\ last_built = [p \in StorePositions |-> ""]
    /\ total_meshes = 0
    /\ render = RenderIdle
    /\ vis_buffers = NewBuffers(0, 1, 0)
    /\ sync = NewSync
    /\ gpu = [f \in Slots |-> GpuIdle]
    /\ fresh = NothingFresh
    /\ submit = SubmitIdle
    /\ cull = [pc |-> "idle", corners |-> << >>, samples |-> << >>, out |-> "stale"]
    /\ hiz = NoPyramid
    /\ local_section = NoLocal
    /\ locks = LocksFree
    /\ plugin = [queued |-> {}, cmd_rx |-> << >>]
    /\ grid = [radius |-> 0, height |-> 1, entry_count |-> 1, visible |-> << {} >>,
               snap |-> {}]

\* the mesher after Mesher::new on a machine with 1..MaxCpus CPUs
Init ==
    /\ InitCommon
    /\ chunks = LoadedWorld
    /\ result_rx = << >>
    /\ dirty = {}
    /\ visibility_rx = << >>
    /\ \E cpus \in 1..MaxCpus :
           /\ worker_count = NumThreads(cpus)
           /\ spawned = 1..NumThreads(cpus)

Worker(w) ==
    \/ FetchAdd(w)
    \/ ReadJobs(w)
    \/ RecheckLoad(w)
    \/ RecheckRead(w)
    \/ PushParked(w)
    \/ Park(w)
    \/ Claim(w)
    \/ BuildLocalSection(w)
    \/ SendResult(w)

Coordinator ==
    \/ CoordRecv
    \/ ClearAndReprioritize
    \/ UnparkAll
    \/ SetCurrentVisibility

\* the scheduler and the pool around one section of an unchanging world
Next ==
    \/ \E p \in OnePosition : SubmitSection(p)
    \/ \E v \in OneCellSnapshots : UpdateVisibility(v)
    \/ \E n \in 0..MaxThreads : SetWorkerThreads(n)
    \/ Coordinator
    \/ \E w \in Threads : Worker(w)
    \/ ProcessMesherResult

Spec == Init /\ [][Next]_vars

\* a full pool meshing one always-visible section of a world that changes
InitRender ==
    /\ InitCommon
    /\ chunks = LoadedWorld
    /\ result_rx = << >>
    /\ dirty = {}
    /\ visibility_rx = << >>
    /\ worker_count = MaxThreads
    /\ spawned = Threads

NextRender ==
    \/ \E p \in OnePosition : SubmitSection(p)
    \/ \E v \in VisibleSnapshots : UpdateVisibility(v)
    \/ \E p \in OnePosition : \E c \in {"stone", "dirt"} : BlockUpdate(p, c)
    \/ Coordinator
    \/ \E w \in Threads : Worker(w)
    \/ ProcessMesherResult

SpecRender == InitRender /\ [][NextRender]_vars

\* a mesher without workers over a world that starts at block -32, -16, 0 or
\* 16 and is one to three sections high, with sections already dirty
InitChunk ==
    /\ InitCommon
    /\ \E m \in {-32, -16, 0, 16} : \E h \in {16, 32, 48} :
           chunks = [min_y |-> m, height |-> h, loaded |-> StoreChunks]
    /\ result_rx = << >>
    /\ dirty \in SUBSET {Pos(0, 0, 0), Pos(1, 0, -1), Pos(1, 5, -1)}
    /\ visibility_rx = << >>
    /\ worker_count = 0
    /\ spawned = {}

\* one thread calls submit_chunk while another submits single sections
NextChunk ==
    \/ \E pos \in {<<0, 0>>, <<1, -1>>} : SubmitChunkBegin(pos)
    \/ SubmitChunkStep
    \/ \E p \in {Pos(0, 0, 0), Pos(1, 0, -1), Pos(1, 5, -1)} : SubmitSection(p)

SpecChunk == InitChunk /\ [][NextChunk]_vars

\* a full pool meshing one always-visible section whose chunk column is
\* unloaded and loaded again by the world's owner
NextUnload ==
    \/ \E p \in OnePosition : SubmitSection(p)
    \/ \E v \in VisibleSnapshots : UpdateVisibility(v)
    \/ \E c \in StoreChunks : ChunkUnload(c)
    \/ \E c \in StoreChunks : ChunkLoad(c)
    \/ Coordinator
    \/ \E w \in Threads : Worker(w)
    \/ ProcessMesherResult

SpecUnload == InitRender /\ [][NextUnload]_vars

\* draw_frame without the reconfiguration of the grid
Frame ==
    \/ FrameBegin
    \/ \E p \in OnePosition : FrameSubmitSection(p)
    \/ FrameNext
    \/ FrameWaitFence
    \/ FrameUpdateVisibility
    \/ \E ok \in BOOLEAN : FrameAcquire(ok)
    \/ FramePoll
    \/ FramePollEnd
    \/ \E view \in SUBSET OnePosition : FrameDraw(view)
    \/ FrameSubmit

Gpu(f) ==
    \/ GpuCull(f)
    \/ GpuCopyBegin(f)
    \/ GpuCopyEnd(f)
    \/ GpuSignal(f)

\* the mesher of a two-CPU machine (one worker) driven by the render thread
InitFrame ==
    /\ InitCommon
    /\ chunks = LoadedWorld
    /\ result_rx = << >>
    /\ dirty = {}
    /\ visibility_rx = << >>
    /\ worker_count = NumThreads(2)
    /\ spawned = 1..NumThreads(2)

NextFrame ==
    \/ Frame
    \/ \E f \in Slots : Gpu(f)
    \/ Coordinator
    \/ \E w \in Threads : Worker(w)

SpecFrame == InitFrame /\ [][NextFrame]_vars

\* the section followed while no delivered snapshot marks it visible, and the
\* two-cell snapshots, of every origin, in which section_is_visible is false
\* for it
HiddenPosition == Pos(0, 1, 0)

HiddenSnapshots ==
    {v \in {Snapshot(0, 2, <<d0, d1>>, 0, 0, my) :
                d0 \in {0, 1}, d1 \in {0, 1}, my \in RebuildMinYs} :
        ~SectionIsVisible(v, HiddenPosition)}

\* the pool of a two-CPU machine, which may be shrunk, while the render thread
\* submits the section, delivers snapshots that hide it and polls results
NextHidden ==
    \/ SubmitSection(HiddenPosition)
    \/ \E v \in HiddenSnapshots : UpdateVisibility(v)
    \/ \E n \in 0..(NumThreads(2) - 1) : SetWorkerThreads(n)
    \/ Coordinator
    \/ \E w \in Threads : Worker(w)
    \/ ProcessMesherResult

SpecHidden == InitFrame /\ [][NextHidden]_vars

\* one cell of the visibility grid culled against any Hi-Z content
NextCull ==
    \/ /\ cull.pc = "idle"
       /\ \E x0 \in (-MaxView - 1)..(MaxView - 1) : \E y0 \in (-MaxView - 1)..(MaxView - 1) :
          \E z0 \in (-MaxView)..MaxView : \E samples \in [1..4 -> HiZValues] :
              CullBind(x0, y0, z0, samples)
    \/ CullChunks

SpecCull == InitFrame /\ [][NextCull]_vars

\* the pyramid of any depth image of up to MaxDim by MaxDim texels holding
\* the depths 0 and 1
NextHiz ==
    \/ /\ hiz.pc = "idle"
       /\ \E w \in 1..MaxDim : \E h \in 1..MaxDim :
          \E px \in [(0..(w - 1)) \X (0..(h - 1)) -> {0, 1}] : DepthWritten(Image(w, h, px))
    \/ HizCopy
    \/ HizReduce

SpecHiz == InitFrame /\ [][NextHiz]_vars

\* the centre column alone, with one of its eight neighbours, or all nine
\* columns, in a world that starts at block -16 or 0 and is one or two sections high
InitLocal ==
    /\ InitCommon
    /\ \E m \in {-16, 0} : \E h \in {16, 32} :
       \E loaded \in {{}, (-1..1) \X (-1..1)} \cup {{<<0, 0>>, c} : c \in (-1..1) \X (-1..1)} :
           chunks = [min_y |-> m, height |-> h, loaded |-> loaded]
    /\ result_rx = << >>
    /\ dirty = {}
    /\ visibility_rx = << >>
    /\ worker_count = 0
    /\ spawned = {}

NextLocal == \E y \in -2..2 : CopyLocalSection(Pos(0, y, 0))

SpecLocal == InitLocal /\ [][NextLocal]_vars

\* the lock operations of two workers, the coordinator and a submitting thread
NextLocks == \E t \in DOMAIN locks.pc : LockStep(t)

SpecLocks == InitFrame /\ [][NextLocks]_vars

\* two workers start while the first snapshot, which shows the one dirty
\* section, is still in the channel: the coordinator installs one list
InitPop ==
    /\ InitCommon
    /\ chunks = LoadedWorld
    /\ result_rx = << >>
    /\ dirty = OnePosition
    /\ visibility_rx \in {<<v>> : v \in VisibleSnapshots}
    /\ worker_count = MaxThreads
    /\ spawned = Threads

NextPop ==
    \/ Coordinator
    \/ \E w \in Threads : Worker(w)

SpecPop == InitPop /\ [][NextPop]_vars

\* server block updates forwarded by the plugin while the mesher runs with
\* one worker and the render thread keeps sending snapshots
NextPlugin ==
    \/ \E p \in OnePosition : \E c \in {"stone", "dirt"} : HandleBlockUpdates(p, c)
    \/ HandleBlockUpdateEvent
    \/ UpdateWorld
    \/ \E v \in VisibleSnapshots : UpdateVisibility(v)
    \/ Coordinator
    \/ \E w \in Threads : Worker(w)
    \/ ProcessMesherResult

SpecPlugin == InitFrame /\ [][NextPlugin]_vars

\* the visibility grid resized to every configuration, written by one cull
\* dispatch and read back as a snapshot with any origin
NextGrid ==
    \/ \E r \in 0..MaxRadius : \E h \in 1..MaxHeight : GridResize(r, h)
    \/ CullDispatch
    \/ \E cx \in (-1)..1 : \E cz \in (-1)..1 : \E min_y \in RebuildMinYs :
           GridSnapshot(cx, cz, min_y)

SpecGrid == InitFrame /\ [][NextGrid]_vars

\* the render thread, the GPU and the coordinator of a one-CPU machine (no
\* worker), with the grid reconfigured between frames
InitReadback ==
    /\ InitCommon
    /\ chunks = LoadedWorld
    /\ result_rx = << >>
    /\ dirty = {}
    /\ visibility_rx = << >>
    /\ worker_count = NumThreads(1)
    /\ spawned = 1..NumThreads(1)

NextReadback ==
    \/ FrameBegin
    \/ \E p \in StorePositions : FrameSubmitSection(p)
    \/ \E c \in GridConfigs : FrameResize(c[1], c[2])
    \/ FrameNext
    \/ FrameWaitFence
    \/ FrameUpdateVisibility
    \/ \E ok \in BOOLEAN : FrameAcquire(ok)
    \/ FramePollEnd
    \/ \E view \in SUBSET StorePositions : FrameDraw(view)
    \/ FrameSubmit
    \/ \E f \in Slots : Gpu(f)
    \/ Coordinator

SpecReadback == InitReadback /\ [][NextReadback]_vars

\* the same pool on an unchanging world, with every thread scheduled fairly
\* and visibility snapshots, all marking the section visible, that keep coming
NextLive ==
    \/ \E p \in OnePosition : SubmitSection(p)
    \/ \E v \in VisibleSnapshots : UpdateVisibility(v)
    \/ Coordinator
    \/ \E w \in Threads : Worker(w)
    \/ ProcessMesherResult

SpecLive ==
    /\ InitRender
    /\ [][NextLive]_vars
    /\ \A w \in Threads : WF_vars(Worker(w))
    /\ WF_vars(Coordinator)
    /\ WF_vars(\E v \in VisibleSnapshots : UpdateVisibility(v))
    /\ WF_vars(ProcessMesherResult)

\* the mesher as Mesher::new leaves it on a machine with 1..MaxCpus CPUs:
\* the pool is never resized
SpecNew == Init /\ [][NextLive]_vars

\* the render thread alone: any results in the channel, consumed in order
InitStore ==
    /\ InitCommon
    /\ chunks = LoadedWorld
    /\ result_rx = << >>
    /\ dirty = {}
    /\ visibility_rx = << >>
    /\ worker_count = 0
    /\ spawned = {}

\* a worker's send, whatever section and content it meshed
AnySend ==
    /\ Len(result_rx) < MaxResults + 1
    /\ \E r \in {MeshSection(p, c) : p \in StorePositions, c \in Contents} : result_rx' = Append(result_rx, r)
    /\ total_meshes' = FetchAddOne(total_meshes)
    /\ fresh' = [fresh EXCEPT !.results = Append(@, TRUE)]
    /\ UNCHANGED <<dirty, visibility_rx, queueVars, current_visibility, coord, poolVars,
                   storeVars, world, histVars>>
    /\ UNCHANGED sideVars

NextStore ==
    \/ AnySend
    \/ ProcessMesherResult

SpecStore == InitStore /\ [][NextStore]_vars

\* the rebuild alone: a dirty set and one delivered snapshot, no worker
InitRebuild ==
    /\ InitCommon
    /\ chunks = LoadedWorld
    /\ result_rx = << >>
    /\ dirty \in RebuildDirtySets
    /\ \E v \in RebuildSnapshots : visibility_rx = <<v>>
    /\ worker_count = 0
    /\ spawned = {}

NextRebuild == Coordinator

SpecRebuild == InitRebuild /\ [][NextRebuild]_vars

\* ------------------------------------------------------------------- claims
\* the coordinator has installed the list built from coord.new_vis and
\* coord.dirty_set and still holds both
Installed == coord.pc \in {"unpark", "set_vis"}

\* C1: after the coordinator has processed update_visibility(V) on the cloned
\* dirty set D, the installed list holds exactly one job for each p in D with
\* V.section_is_visible(p) and no other job, in order of non-increasing
\* V.section_depth(p), for every origin of V
C1_JobsAreVisibleDirty ==
    Installed =>
        LET V    == coord.new_vis
            want == {p \in coord.dirty_set : SectionIsVisible(V, p)}
        IN  /\ {jobs[k].spos : k \in 1..Len(jobs)} = want
            /\ Len(jobs) = Cardinality(want)
            /\ \A k \in 1..(Len(jobs) - 1) :
                   SectionDepth(V, jobs[k].spos) >= SectionDepth(V, jobs[k + 1].spos)

\* C8: jobs are ordered nearest-first: in the installed list a section with a
\* smaller snapshot depth comes before one with a larger depth (origin
\* min_y = 0, where the decoded cell and the looked-up cell agree)
C8_NearestFirst ==
    (Installed /\ coord.new_vis.min_y = 0) =>
        \A k \in 1..Len(jobs) : \A l \in 1..Len(jobs) :
            SectionDepth(coord.new_vis, jobs[k].spos)
                < SectionDepth(coord.new_vis, jobs[l].spos) => k < l

\* C9: every installed job carries as its priority the snapshot's value at the
\* cell its position was derived from, for every origin and grid size
C9_PrioIsCellValue ==
    Installed =>
        \A k \in 1..Len(jobs) :
            \E i \in 0..(Len(coord.new_vis.data) - 1) :
                /\ CellPos(coord.new_vis, i) = jobs[k].spos
                /\ coord.new_vis.data[i + 1] # 0
                /\ jobs[k].prio = coord.new_vis.data[i + 1]

\* a worker holds position p between its claim and its send
InFlight(w, p) == w \in spawned /\ wk[w].pc \in {"build", "send"} /\ wk[w].job.spos = p

\* C2: between two successive effective insertions of a position into the
\* dirty set at most one worker succeeds in claiming it
C2_NoDuplicateClaims ==
    \A p \in StorePositions : claimed_since[p] <= 1

\* pop handed the same job to two workers; one claimed it, the other has yet to try
C2_Witness ==
    \E p \in OnePosition : \E w1 \in spawned : \E w2 \in spawned :
        /\ w1 # w2
        /\ InFlight(w1, p)
        /\ wk[w2].pc = "claim" /\ wk[w2].job.spos = p
        /\ p \notin dirty
        /\ claimed_since[p] = 1

\* a worker is blocked in park(): it waits with no token
Parked(w) == w \in spawned /\ wk[w].pc = "park" /\ ~park_token[w]

\* C6: once a rebuild is complete no worker is left parked while the cursor
\* is below the length of the installed list
C6_NoWorkerParkedOnWork ==
    coord.pc \in {"recv", "reprioritize", "set_vis"} =>
        \A w \in Threads : ~(Parked(w) /\ next_job_index < Len(jobs))

\* C7: after any sequence of resizes the live worker count equals
\* get_worker_thread_count() once every worker is parked (a parked excess
\* worker has exited)
C7_PoolMatchesCount ==
    LET Live == {w \in spawned : wk[w].pc # "exited"}
    IN  (\A w \in Live : Parked(w)) => Cardinality(Live) = worker_count

AllConsumed(p) ==
    /\ \A w \in spawned : ~(wk[w].pc = "send" /\ wk[w].job.spos = p)
    /\ \A k \in 1..Len(result_rx) : result_rx[k].blocks.section_pos # p

\* C4: results are never stale: once the results of all meshing passes of p
\* have been consumed, the mesh stored for p is the one built from the latest
\* local-section snapshot
C4_LaterMeshWins ==
    \A p \in OnePosition :
        (AllConsumed(p) /\ last_built[p] # "") => blocks[p] = last_built[p]

\* C5: every result consumed for p replaces the mesh stored for p in the block
\* map and in the water map, also when its vertex list is empty: after the
\* step the maps hold the meshes of that result
C5_ResultReplacesMesh ==
    [][(Len(result_rx) > 0 /\ result_rx' = Tail(result_rx)) =>
          LET r == Head(result_rx)
          IN  /\ blocks'[r.blocks.section_pos] = r.blocks.vertices
              /\ water'[r.water.section_pos] = r.water.vertices]_vars

\* C3: no missed update: a position submitted while a worker holds it in
\* flight is eventually claimed again, and a claimed position is meshed
C3_NoMissedUpdate ==
    /\ \A p \in OnePosition :
           (p \in dirty /\ \E w \in Threads : InFlight(w, p)) ~> (p \notin dirty)
    /\ \A w \in Threads : (wk[w].pc = "build") ~> (wk[w].pc = "send")

\* p is in the dirty set again while a worker still holds its earlier claim
C3_Witness ==
    \E p \in OnePosition : \E w \in Threads :
        /\ InFlight(w, p)
        /\ p \in dirty
        /\ claimed_since[p] = 0

\* a step of worker w, which changes only w's own position and locals
StepOf(w) == wk'[w] # wk[w]

\* C11: stale jobs are discarded: a worker handed a job whose position is not
\* in the dirty set builds no local section, counts and sends nothing, leaves
\* the dirty set as it is and goes back to pop for the next job
C11_StaleJobDiscarded ==
    [][\A w \in Threads :
          (w \in spawned /\ wk[w].pc = "claim" /\ wk[w].job.spos \notin dirty /\ StepOf(w)) =>
              /\ wk'[w] = WorkerStart
              /\ dirty' = dirty
              /\ total_meshes' = total_meshes
              /\ result_rx' = result_rx
              /\ last_built' = last_built
              /\ claimed_since' = claimed_since]_vars

\* a worker holds a job for a position that another worker claimed and meshed
C11_Witness ==
    \E w \in spawned :
        /\ wk[w].pc = "claim"
        /\ wk[w].job.spos \notin dirty
        /\ claimed_since[wk[w].job.spos] = 1
        /\ total_meshes = 1

\* C12: an unloaded chunk is a silent drop: when build_local_section returns
\* None for a claimed position, nothing is sent or counted, the job list and
\* the dirty set stay as they are, the worker goes back to pop, and only a
\* submit (no worker, no coordinator step) ever adds a position to the dirty set
C12_UnloadedSilentDrop ==
    [][/\ \A w \in Threads :
             (w \in spawned /\ wk[w].pc = "build" /\ ~CenterLoaded(wk[w].job.spos)
                  /\ StepOf(w)) =>
                 /\ wk'[w] = WorkerStart
                 /\ result_rx' = result_rx
                 /\ total_meshes' = total_meshes
                 /\ dirty' = dirty
                 /\ jobs' = jobs
                 /\ next_job_index' = next_job_index
                 /\ storeVars' = storeVars
       /\ (\E p \in dirty' : p \notin dirty) =>
              (wk' = wk /\ coord' = coord)]_vars

\* a worker has claimed a position whose chunk column is not loaded, and
\* results were meshed and counted before
C12_Witness ==
    \E w \in spawned :
        /\ wk[w].pc = "build"
        /\ ~CenterLoaded(wk[w].job.spos)
        /\ wk[w].job.spos \notin dirty
        /\ total_meshes = 1

\* C13: a mesh is drawn no earlier than the frame after its job was claimed:
\* when draw_frame has drawn, no drawn mesh comes from a result polled in this
\* frame whose job was claimed in this frame
C13_NotDrawnInClaimFrame ==
    render.pc = "submit" => render.drawn \cap fresh.meshes = {}

\* a step in which worker w claims position p: d.remove(&job.spos) found it
ClaimStep(w, p) ==
    w \in spawned /\ wk[w].pc = "claim" /\ wk[w].job.spos = p /\ wk'[w].pc = "build"

\* C14: positions leave the dirty set only when a worker claims them:
\* update_visibility, the rebuild, poll and set_worker_threads leave it
\* unchanged, so a dirty position that section_is_visible finds in no
\* delivered snapshot stays dirty
C14_InvisibleStaysDirty ==
    [][/\ \A p \in dirty : p \notin dirty' => \E w \in Threads : ClaimStep(w, p)
       /\ (\/ visibility_rx' # visibility_rx
           \/ coord' # coord
           \/ Len(result_rx') < Len(result_rx)
           \/ worker_count' # worker_count) => dirty' = dirty
       /\ HiddenPosition \in dirty => HiddenPosition \in dirty']_vars

\* C15: submit_chunk(pos) passes to submit_section exactly the positions
\* (pos.x, y, pos.z) with min_y/16 <= y < min_y/16 + height/16, that is
\* height/16 positions, all of them in the dirty set when it returns, and no
\* position with another x or z
C15_SubmitChunkColumn ==
    submit.pc = "done" =>
        LET lo == TruncDiv(chunks.min_y, 16)
            n  == TruncDiv(chunks.height, 16)
        IN  /\ \A y \in (lo - 2)..(lo + n + 2) :
                   Pos(submit.pos[1], y, submit.pos[2]) \in submit.added
                       <=> (lo <= y /\ y < lo + n)
            /\ \A p \in submit.added : p.x = submit.pos[1] /\ p.z = submit.pos[2]
            /\ Cardinality(submit.added) = n
            /\ submit.added \subseteq dirty

\* submit_chunk returned for a world that starts below zero and is three
\* sections high, while a section of another column is dirty
C15_Witness ==
    /\ submit.pc = "done"
    /\ chunks.min_y = -16
    /\ chunks.height = 48
    /\ submit.added = {Pos(1, -1, -1), Pos(1, 0, -1), Pos(1, 1, -1)}
    /\ Pos(0, 0, 0) \in dirty

\* C16: visibility round trip of the cull pass: a cell that passes the frustum
\* test, has a screen rectangle and whose nearest depth is positive and smaller
\* than the Hi-Z value sampled at every corner is written non-zero, and a cell whose
\* Hi-Z samples are all the near-zero depth of an occluder in front of it is
\* written 0
C16_CullRoundTrip ==
    cull.pc = "done" =>
        LET valid == {i \in 1..8 : cull.corners[i].w > 0}
            depth(i) == <<cull.corners[i].z, cull.corners[i].w>>
            acc == Project(cull.corners, 1, ProjectStart)
            onscreen ==
                /\ ~FrustumRejects(cull.corners)
                /\ valid # {}
                /\ ~Degenerate(<<Clamp01(acc.min_x), Clamp01(acc.min_y)>>,
                               <<Clamp01(acc.max_x), Clamp01(acc.max_y)>>)
        IN  /\ (/\ onscreen
                /\ \A i \in valid : depth(i)[1] > 0
                /\ \E i \in valid : \A k \in 1..4 : RatLess(depth(i), cull.samples[k]))
                   => cull.out[1] # 0
            /\ (onscreen /\ \A k \in 1..4 : /\ cull.samples[k] = <<1, 8>>
                                             /\ \A i \in valid : RatLess(cull.samples[k], depth(i)))
                   => cull.out[1] = 0

\* C17: cull edge cases give 0: a cell whose 8 corners all have w <= 0 and a
\* cell whose screen rectangle has zero width or height after clamping to
\* [0,1] are written 0; the entry is written on every path; a non-zero value
\* is written only for a cell found visible and is its nearest NDC depth
C17_CullEdgeCases ==
    cull.pc = "done" =>
        LET valid == {i \in 1..8 : cull.corners[i].w > 0}
            depth(i) == <<cull.corners[i].z, cull.corners[i].w>>
            u(i) == Clamp01(<<cull.corners[i].x + cull.corners[i].w, 2 * cull.corners[i].w>>)
            v(i) == Clamp01(<<cull.corners[i].y + cull.corners[i].w, 2 * cull.corners[i].w>>)
            flat == \/ \A i, j \in valid : ~RatLess(u(i), u(j))
                    \/ \A i, j \in valid : ~RatLess(v(i), v(j))
        IN  /\ cull.out # "stale"
            /\ valid = {} => cull.out[1] = 0
            /\ flat => cull.out[1] = 0
            /\ cull.out[1] # 0 =>
                   /\ ~FrustumRejects(cull.corners)
                   /\ \E i \in valid : /\ cull.out[1] * depth(i)[2] = depth(i)[1] * cull.out[2]
                                        /\ \A j \in valid : ~RatLess(depth(j), depth(i))
                   /\ \E k \in 1..4 : RatLess(cull.samples[k], cull.out)

\* a cell in front of the camera passed the frustum test and its clamped
\* screen rectangle has no width or no height
C17_Witness ==
    /\ cull.pc = "done"
    /\ ~FrustumRejects(cull.corners)
    /\ \E i \in 1..8 : cull.corners[i].w > 0
    /\ LET acc == Project(cull.corners, 1, ProjectStart)
       IN  Degenerate(<<Clamp01(acc.min_x), Clamp01(acc.min_y)>>,
                      <<Clamp01(acc.max_x), Clamp01(acc.max_y)>>)
    /\ cull.out = <<0, 1>>

\* C18: Hi-Z downsample monotonicity: level 0 is the depth image, and for any
\* levels i < j every texel t of level j is less than or equal to every
\* texel of the 2^(j-i) by 2^(j-i) block of level i below it
C18_HizMonotone ==
    /\ Len(hiz.levels) > 0 => hiz.levels[1] = hiz.depth
    /\ \A i, j \in 1..Len(hiz.levels) :
           i < j =>
               LET k == 2 ^ (j - i)
                   fine == hiz.levels[i]
                   coarse == hiz.levels[j]
               IN  \A t \in DOMAIN coarse.px : \A s \in DOMAIN fine.px :
                       (/\ k * t[1] <= s[1] /\ s[1] < k * (t[1] + 1)
                        /\ k * t[2] <= s[2] /\ s[2] < k * (t[2] + 1))
                           => coarse.px[t] <= fine.px[s]

\* C19: every snapshot handed to update_visibility was copied out of a
\* readback buffer that holds the complete output of a finished pass, never
\* one the GPU is writing or has not written
C19_SnapshotOfFinishedPass ==
    render.read \in {"none", "complete"}

\* C20: no job list derived from a snapshot of another (radius, height) than
\* the visibility buffers now have is installed
C20_NoStaleConfigInstalled ==
    [][(coord.pc = "reprioritize" /\ coord'.pc = "unpark" /\ Len(jobs') > 0) =>
          /\ coord.new_vis.radius = vis_buffers.radius
          /\ coord.new_vis.height = vis_buffers.height]_vars

\* C21: every cell blocks[lx+1][ly+1][lz+1] of a built local section, for lx,
\* ly, lz in -1..16, holds the world voxel (16*spos.x+lx, 16*spos.y+ly,
\* 16*spos.z+lz) when the chunk column at offset (floor(lx/16), floor(lz/16))
\* is loaded and has the section (spos.y - min_y/16) + floor(ly/16), else None
C21_LocalDecomposition ==
    local_section.pc = "built" =>
        \A lx \in -1..16 : \A ly \in -1..16 : \A lz \in -1..16 :
            LET column == <<local_section.spos.x + lx \div 16, local_section.spos.z + lz \div 16>>
                section == (local_section.spos.y - chunks.min_y \div 16) + ly \div 16
            IN  local_section.blocks[lx + 1][ly + 1][lz + 1] =
                    IF column \in chunks.loaded /\ section \in 0..(chunks.height \div 16 - 1)
                    THEN {<<16 * local_section.spos.x + lx, 16 * local_section.spos.y + ly,
                            16 * local_section.spos.z + lz>>}
                    ELSE {}

\* a section built with its east neighbour loaded and its west one not, below
\* the topmost section of a world two sections high
C21_Witness ==
    /\ local_section.pc = "built"
    /\ chunks.loaded = {<<0, 0>>, <<1, 0>>}
    /\ local_section.blocks[17][1][1] # {}
    /\ local_section.blocks[0][1][1] = {}
    /\ local_section.blocks[1][17][1] # {}
    /\ local_section.blocks[1][0][1] = {}

\* C22: a worker inside mesh_section holds no lock at all, and a worker holds
\* the world read lock or a chunk read lock only inside build_local_section
C22_NoLockWhileMeshing ==
    \A w \in {"worker1", "worker2"} :
        /\ locks.pc[w] = "mesh" => locks.held[w] = {}
        /\ (\E g \in locks.held[w] : g[1] \in {"world", "chunk"}) =>
               locks.pc[w] \in {"build_world", "copy"}

\* one worker is meshing while the other one copies its local section under
\* the chunk read locks
C22_Witness ==
    /\ locks.pc["worker1"] = "mesh"
    /\ locks.pc["worker2"] = "copy"
    /\ <<"chunk", "read">> \in locks.held["worker2"]

\* C29: no thread holds two of the dirty-set mutex, the job-list RwLock, the
\* parked-threads mutex and the current-visibility mutex at once, and a
\* thread that waits for one of them waits for a holder that is itself not
\* waiting for any lock, so there is no cycle of waiting threads
C29_OneMesherLockAtATime ==
    LET mesher == {"dirty", "jobs", "parked", "vis"}
        code(t) == CASE t = "coordinator" -> CoordCode [] t = "submitter" -> SubmitCode
                     [] OTHER -> WorkerCode
        wants(t) == {op[2] : op \in {o \in code(t)[locks.pc[t]] :
                                         o[1] \in {"lock", "read", "write"}}}
    IN  \A t \in DOMAIN locks.pc :
            /\ Cardinality({g[1] : g \in locks.held[t]} \cap mesher) <= 1
            /\ \A u \in DOMAIN locks.pc \ {t} :
                   (wants(t) \cap mesher) \cap {g[1] : g \in locks.held[u]} # {}
                       => wants(u) = {}

\* the coordinator waits for the job-list write lock while a worker reads
\* the list, and the submitting thread waits for the dirty set a worker holds
C29_Witness ==
    /\ locks.pc["coordinator"] = "install"
    /\ <<"jobs", "read">> \in locks.held["worker1"]
    /\ locks.pc["submitter"] = "chunk_loop"
    /\ <<"dirty", "lock">> \in locks.held["worker2"]

\* C23: each entry of an installed list is returned by pop to at most one
\* worker: no two workers hold, as the job pop returned to them, the same
\* entry of the one list that was installed
C23_EntryPoppedOnce ==
    \A w1 \in spawned : \A w2 \in spawned \ {w1} :
        ~(/\ wk[w1].pc = "claim"
          /\ wk[w2].pc = "claim"
          /\ Len(jobs) = 1
          /\ wk[w1].job = jobs[1]
          /\ wk[w2].job = jobs[1])

\* C24: whenever draw_frame waits for the fence of its frame slot, the fence
\* is signaled or a queue submission that will signal it is pending
C24_WaitedFenceWillSignal ==
    render.pc = "wait" =>
        sync.in_flight[render.frame] \/ gpu[render.frame].stage # "idle"

\* C25: when process_mesher_results replaces the stored mesh of a section,
\* the old mesh buffer it destroys is read by no command buffer that was
\* submitted and has not finished
C25_BufferFreedAfterUse ==
    [][\A p \in StorePositions :
           (/\ Len(result_rx) > 0
            /\ result_rx' = Tail(result_rx)
            /\ \/ /\ Head(result_rx).blocks.section_pos = p
                  /\ Head(result_rx).blocks.vertices # ""
                  /\ blocks[p] # ""
               \/ /\ Head(result_rx).water.section_pos = p
                  /\ Head(result_rx).water.vertices # ""
                  /\ water[p] # "")
           => \A f \in Slots : gpu[f].stage # "idle" => p \notin gpu[f].drawn]_vars

\* C26: a section submitted because of a server block update is meshed from
\* a world that contains the update: once the update is written, the message
\* delivered, the section no longer dirty and no worker about to copy it,
\* the local section last copied for it holds the section's present content
C26_UpdateIsMeshed ==
    \A p \in OnePosition :
        (/\ plugin.queued = {}
         /\ Len(plugin.cmd_rx) = 0
         /\ p \notin dirty
         /\ \A w \in spawned : ~(wk[w].pc = "build" /\ wk[w].job.spos = p)
         /\ last_built[p] # "")
        => last_built[p] = world[p]

\* C27: the reduction loses no texel: every texel of a level that has a
\* successor is one of the four texels some texel of the next level reads,
\* and the coarsest level is 1 by 1 and holds the minimum of the whole depth
\* image
C27_NoTexelLost ==
    /\ \A i \in 1..(Len(hiz.levels) - 1) :
           LET src == hiz.levels[i]
               dst == hiz.levels[i + 1]
               cx(x) == IF x < src.w - 1 THEN x ELSE src.w - 1
               cy(y) == IF y < src.h - 1 THEN y ELSE src.h - 1
           IN  \A t \in DOMAIN src.px : \E o \in DOMAIN dst.px :
                   /\ t[1] \in {cx(2 * o[1]), cx(2 * o[1] + 1)}
                   /\ t[2] \in {cy(2 * o[2]), cy(2 * o[2] + 1)}
    /\ hiz.pc = "done" =>
           LET top == hiz.levels[Len(hiz.levels)]
           IN  /\ top.w = 1 /\ top.h = 1
               /\ \A t \in DOMAIN hiz.depth.px : top.px[<<0, 0>>] <= hiz.depth.px[t]
               /\ \E t \in DOMAIN hiz.depth.px : top.px[<<0, 0>>] = hiz.depth.px[t]

\* C30: Mesher::new starts at least one worker thread for every CPU count
\* c >= 1, and that number is what get_worker_thread_count() returns
C30_NewStartsWorker ==
    /\ worker_count >= 1
    /\ spawned = 1..worker_count

\* C28: the flat cell index is one layout everywhere: for the radius r and
\* the height h of the last snapshot, VisibilitySnapshot::index returns None
\* exactly outside the cells -r <= dx, dz <= r, 0 <= dy < h and maps the
\* cells one to one onto 0 .. (2r+1)^2 h - 1; the entry the cull shader wrote
\* for a cell is the entry at that index; the decode of
\* clear_and_reprioritize returns the position of the cell and chunk_coords
\* of the debug shader the cell of every index; and entry_count and the
\* length of the buffer and of the snapshot are (2r+1)^2 h
C28_OneLayout ==
    /\ grid.entry_count = (2 * grid.radius + 1) * (2 * grid.radius + 1) * grid.height
    /\ Len(grid.visible) = grid.entry_count
    /\ \A vis \in grid.snap :
        LET r      == vis.radius
            h      == vis.height
            cells  == {c \in ((-r)..r) \X (0..(h - 1)) \X ((-r)..r) : TRUE}
            around == ((-r - 1)..(r + 1)) \X ((-1)..h) \X ((-r - 1)..(r + 1))
        IN  /\ Len(vis.data) = (2 * r + 1) * (2 * r + 1) * h
            /\ \A c \in around : (Index(vis, c[1], c[2], c[3]) = None) <=> (c \notin cells)
            /\ \A c, d \in cells :
                   Index(vis, c[1], c[2], c[3]) = Index(vis, d[1], d[2], d[3]) => c = d
            /\ {Index(vis, c[1], c[2], c[3]) : c \in cells}
                   = 0..((2 * r + 1) * (2 * r + 1) * h - 1)
            /\ \A i \in 1..Len(vis.data) : \A p \in vis.data[i] :
                   Index(vis, p.x, p.y, p.z) = i - 1
            /\ \A c \in cells :
                   /\ CellPos(vis, Index(vis, c[1], c[2], c[3]))
                          = Pos(vis.cx + c[1], vis.min_y + c[2], vis.cz + c[3])
                   /\ ChunkCoords(Index(vis, c[1], c[2], c[3]), r) = Pos(c[1], c[2], c[3])

\* the snapshot of a grid of radius 1 and height 2 with an origin other than
\* zero, every one of its 18 entries written by the dispatch
C28_Witness ==
    \E vis \in grid.snap :
        /\ vis.radius = 1
        /\ vis.height = 2
        /\ vis.cx = 1 /\ vis.cz = -1 /\ vis.min_y = -1
        /\ Len(vis.data) = 18
        /\ \A i \in 1..18 : vis.data[i] # {}

====
